---- MODULE Spec2Model ----
(***************************************************************************)
(* Model of the f5_ai_gateway_sdk processor dispatch core: the field       *)
(* validator, the multipart extraction, the handler invocation, the        *)
(* outcome normalisation, the policy gate and the response serialisation   *)
(* of Processor._parse_and_process, with Result / Reject / Signature.      *)
(***************************************************************************)
EXTENDS Integers, Sequences, FiniteSets, TLC

VARIABLES signature, app_details, pc, request, validated, parsed, hashes, handler, outcome, log, response,
          overrides, args, exception, _tags, message, serialized, calls, inflight

vars == <<signature, app_details, pc, request, validated, parsed, hashes, handler, outcome, log, response,
          overrides, args, exception, _tags, message, serialized, calls, inflight>>

(***************************************************************************)
(* Bounds of the model.                                                    *)
(***************************************************************************)
\* number of distinct prompt / response contents a request or handler uses
MaxContent == 2
\* number of field names outside the wire contract a form may carry
MaxUnknown == 1
\* number of fields of a list of response fields
MaxFields == 3
\* number of tags of a list given to Tags() or to add_tag
MaxTagList == 2

(***************************************************************************)
(* Optional values: Python None is the empty tuple, a value x is <<x>>.    *)
(***************************************************************************)
None == <<>>
Some(x) == <<x>>
IsNone(o) == o = <<>>
Get(o) == o[1]

(***************************************************************************)
(* multipart_fields.py: the field catalog.                                 *)
(***************************************************************************)
INPUT_NAME == "input.messages"
INPUT_PARAMETERS_NAME == "input.parameters"
RESPONSE_NAME == "response.choices"
RESPONSE_PARAMETERS_NAME == "response.parameters"
METADATA_NAME == "metadata"
REJECT_NAME == "reject"

REQUIRED_MULTIPART_FIELDS == {METADATA_NAME}
OPTIONAL_MULTIPART_FIELDS ==
    {INPUT_NAME, RESPONSE_NAME, INPUT_PARAMETERS_NAME, RESPONSE_PARAMETERS_NAME, REJECT_NAME}

\* field names that are not part of the wire contract
UnknownPool == <<"unknown field", "unknown field 2", "unknown field 3">>

UnknownNames == {UnknownPool[i] : i \in 1..MaxUnknown}

\* every field name a decoded request form carries in the model (reject is
\* an output-side name; in a request it is one more name nothing reads)
FieldNames == REQUIRED_MULTIPART_FIELDS \cup (OPTIONAL_MULTIPART_FIELDS \ {REJECT_NAME}) \cup UnknownNames

HTTP_200_OK == 200
HTTP_204_NO_CONTENT == 204
HTTP_400_BAD_REQUEST == 400
HTTP_415_UNSUPPORTED_MEDIA_TYPE == 415
HTTP_500_INTERNAL_SERVER_ERROR == 500

(***************************************************************************)
(* signature.py: SignatureField, Signature and the predefined signatures.  *)
(***************************************************************************)
SignatureField == {INPUT_NAME, RESPONSE_NAME}

\* Signature.__post_init__: a falsy set is stored as None, a non-empty one
\* as a frozenset.  Both None is refused only when both were given as None.
SignatureSets == {None} \cup {Some(s) : s \in (SUBSET SignatureField) \ {{}}}

Signatures == [required : SignatureSets, optional : SignatureSets]

INPUT_ONLY_SIGNATURE == [required |-> Some({INPUT_NAME}), optional |-> None]
RESPONSE_ONLY_SIGNATURE == [required |-> Some({RESPONSE_NAME}), optional |-> None]
RESPONSE_AND_PROMPT_SIGNATURE ==
    [required |-> Some({INPUT_NAME, RESPONSE_NAME}), optional |-> None]
BOTH_SIGNATURE == [required |-> None, optional |-> Some({INPUT_NAME, RESPONSE_NAME})]
BOTH_RESPONSE_PROMPT_SIGNATURE ==
    [required |-> Some({INPUT_NAME}), optional |-> Some({RESPONSE_NAME})]

ALL_PREDEFINED_SIGNATURES ==
    {INPUT_ONLY_SIGNATURE, RESPONSE_ONLY_SIGNATURE, RESPONSE_AND_PROMPT_SIGNATURE,
     BOTH_SIGNATURE, BOTH_RESPONSE_PROMPT_SIGNATURE}

\* str.startswith(f"{direction}.") on the two field names
StartsWithDirection(field, direction) ==
    \/ direction = "input" /\ field = INPUT_NAME
    \/ direction = "response" /\ field = RESPONSE_NAME

supports_direction(sig, direction) ==
    LET inRequired == /\ ~IsNone(sig.required)
                      /\ \E f \in Get(sig.required) : StartsWithDirection(f, direction)
    IN  IF inRequired THEN TRUE
        ELSE /\ ~IsNone(sig.optional)
             /\ \E f \in Get(sig.optional) : StartsWithDirection(f, direction)

supports_input(sig) == supports_direction(sig, "input")

supports_response(sig) == supports_direction(sig, "response")

(***************************************************************************)
(* errors.py: the ProcessorError family as [status_code, detail, messages] *)
(* records.                                                                *)
(***************************************************************************)
ProcessorError(status_code, detail) ==
    [status_code |-> status_code, detail |-> detail, messages |-> <<>>]

\* ProcessorError.__init__ with the optional list of messages
WithMessages(err, messages) == [err EXCEPT !.messages = messages]

MissingMultipartFieldError(field_name) ==
    ProcessorError(HTTP_400_BAD_REQUEST,
        IF field_name = METADATA_NAME THEN "metadata part is missing" ELSE "part is missing")

\* the error with an earlier wording of its detail
MissingPromptAndResponseError_reworded ==
    ProcessorError(HTTP_400_BAD_REQUEST,
        "prompt and response fields are missing - at least one is required")

MissingPromptAndResponseError ==
    ProcessorError(HTTP_400_BAD_REQUEST,
        "input.messages (prompt) and response.choices (response) fields are missing - at least one is required")

InvalidMultipartFields(detail) == ProcessorError(HTTP_400_BAD_REQUEST, detail)

UnexpectedContentTypeError(detail) == ProcessorError(HTTP_415_UNSUPPORTED_MEDIA_TYPE, detail)

ParametersParseError == ProcessorError(HTTP_400_BAD_REQUEST, "invalid parameters submitted")

MetadataParseError(detail) == ProcessorError(HTTP_400_BAD_REQUEST, detail)

MultipartParseError(detail) == ProcessorError(HTTP_400_BAD_REQUEST, detail)

PromptParseError == ProcessorError(HTTP_400_BAD_REQUEST, "invalid prompt field submitted")

ResponseParseError == ProcessorError(HTTP_400_BAD_REQUEST, "invalid response field submitted")

ProcessExecutionError(detail) == ProcessorError(HTTP_500_INTERNAL_SERVER_ERROR, detail)

ResponseObjectError ==
    ProcessorError(HTTP_500_INTERNAL_SERVER_ERROR, "problem creating response object")

GENERIC_EXECUTION_DETAIL == "problem executing processor implementation"

(***************************************************************************)
(* Processor._validate_and_find_parameters_name.  The result is            *)
(* [raised |-> FALSE, name |-> None or Some(field name)] on return and     *)
(* [raised |-> TRUE, error |-> ProcessorError] on raise.                   *)
(***************************************************************************)
NoError == ProcessorError(0, "")

Raise(err) == [raised |-> TRUE, error |-> err, name |-> None]

Return(v) == [raised |-> FALSE, error |-> NoError, name |-> v]

\* a validator that never looks at signature.required
MissingRequired_unchecked(sig, form) == {}

\* the first field of signature.required that is not in the form, if any;
\* the iteration order over the frozenset is the interpreter's
MissingRequired(sig, form) ==
    IF IsNone(sig.required) THEN {} ELSE Get(sig.required) \ form

\* f"Missing required field for {direction}: {required}"
MissingDetail(direction, required) ==
    IF direction = "response"
    THEN IF required = INPUT_NAME
         THEN "Missing required field for response: input.messages"
         ELSE "Missing required field for response: response.choices"
    ELSE IF required = INPUT_NAME
         THEN "Missing required field for input: input.messages"
         ELSE "Missing required field for input: response.choices"

validate_and_find_parameters_name(sig, form) ==
    LET matched_input == INPUT_NAME \in form
        matched_response == RESPONSE_NAME \in form
        matched_input_parameters == INPUT_PARAMETERS_NAME \in form
        matched_response_parameters == RESPONSE_PARAMETERS_NAME \in form
        is_response_request == matched_response
        is_prompt_request == ~is_response_request
        missing == MissingRequired(sig, form)
    IN  IF \E required \in REQUIRED_MULTIPART_FIELDS : required \notin form
        THEN Raise(MissingMultipartFieldError(
                 CHOOSE required \in REQUIRED_MULTIPART_FIELDS : required \notin form))
        ELSE IF ~matched_input /\ ~matched_response
        THEN Raise(MissingPromptAndResponseError)
        ELSE IF is_response_request /\ ~supports_response(sig)
        THEN Raise(InvalidMultipartFields("Processor signature does not allow response fields"))
        ELSE IF is_response_request /\ missing # {}
        THEN Raise(InvalidMultipartFields(
                 MissingDetail("response", CHOOSE f \in missing : TRUE)))
        ELSE IF is_prompt_request /\ ~supports_input(sig)
        THEN Raise(InvalidMultipartFields("Processor signature does not allow input fields"))
        ELSE IF is_prompt_request /\ missing # {}
        THEN Raise(InvalidMultipartFields(
                 MissingDetail("input", CHOOSE f \in missing : TRUE)))
        ELSE IF is_response_request /\ matched_input_parameters
        THEN Raise(InvalidMultipartFields(
                 "prompt parameters cannot be present with response.choices field"))
        ELSE IF is_prompt_request /\ matched_response_parameters
        THEN Raise(InvalidMultipartFields(
                 "response parameters cannot be present with only a input.messages field"))
        ELSE IF matched_input_parameters THEN Return(Some(INPUT_PARAMETERS_NAME))
        ELSE IF matched_response_parameters THEN Return(Some(RESPONSE_PARAMETERS_NAME))
        ELSE Return(None)

(***************************************************************************)
(* type_hints.py Metadata: a dict from string keys to JSON values.         *)
(***************************************************************************)
EmptyDict == [k \in {} |-> None]

Put(d, k, v) == [x \in DOMAIN d \cup {k} |-> IF x = k THEN v ELSE d[x]]

\* bool(dict)
Truthy(d) == DOMAIN d # {}

\* the metadata objects a request can carry
InboundKeys == {"request_id", "step_id"}

InboundMetadata ==
    {[k \in ks |-> IF k = "request_id" THEN "req-1"
                   ELSE IF k = "step_id" THEN "step-1"
                   ELSE [version |-> "0.9"]] :
        ks \in {{}, InboundKeys \cup {"app_details"}}}

\* the metadata a handler puts on its outcome
HandlerMetadata ==
    {EmptyDict,
     [key |-> "value", processor_id |-> "other:id", request_id |-> "req-0",
      app_details |-> [version |-> "0.1"]]}

(***************************************************************************)
(* tags.py Tags: a dict from lowercase key to a list of lowercase tags.    *)
(***************************************************************************)
EmptyTags == [k \in {} |-> <<>>]

FAKE_TAGS == [test1 |-> <<"a", "b">>]

TagsValues == {EmptyTags, FAKE_TAGS}

\* Tags.__bool__ / Tags.__len__
TagsBool(tags) == Cardinality(DOMAIN tags) > 0

\* Tags.to_response / Tags.get_all_tags: a deep copy of the dict
Tags_to_response(tags) == tags

(***************************************************************************)
(* parameters.py Parameters: annotate / modify / reject with defaults and  *)
(* the check_not_reject_and_modify validator.                              *)
(***************************************************************************)
DefaultParameters == [annotate |-> TRUE, modify |-> FALSE, reject |-> FALSE]

\* a Parameters class without the validator
check_not_reject_and_modify_skipped(p) == TRUE

check_not_reject_and_modify(p) == ~(p.reject /\ p.modify)

\* the message of the pydantic error of the validator and of a field error,
\* as _validation_error_as_messages renders them
MUTUALLY_EXCLUSIVE_MESSAGE == "Value error, Modify and Reject modes are mutually exclusive"

FIELD_ERROR_MESSAGE == "Input should be a valid boolean: annotate"

\* the JSON bodies of a parameters part: wellformed is FALSE for a body
\* that is not a JSON object of the declared types
ParameterBodies ==
    [annotate : BOOLEAN, modify : BOOLEAN, reject : BOOLEAN, wellformed : {TRUE}]
    \cup {[annotate |-> TRUE, modify |-> FALSE, reject |-> FALSE, wellformed |-> FALSE]}

\* Processor._parameters_transform: model_validate_json(strict=True)
parameters_transform(body) ==
    IF ~body.wellformed
    THEN [raised |-> TRUE, error |-> WithMessages(ParametersParseError, <<FIELD_ERROR_MESSAGE>>),
          value |-> DefaultParameters]
    ELSE IF ~check_not_reject_and_modify(body)
    THEN [raised |-> TRUE,
          error |-> WithMessages(ParametersParseError, <<MUTUALLY_EXCLUSIVE_MESSAGE>>),
          value |-> DefaultParameters]
    ELSE [raised |-> FALSE, error |-> NoError,
          value |-> [annotate |-> body.annotate, modify |-> body.modify, reject |-> body.reject]]

(***************************************************************************)
(* request_input.py / response_output.py: a RequestInput or ResponseOutput *)
(* is identified by its content 1..MaxContent; hash() is the hash of the   *)
(* JSON dump.                                                              *)
(***************************************************************************)
Contents == 1..MaxContent

RequestInput_model_dump_json(c) == <<"messages", c>>

ResponseOutput_model_dump_json(c) == <<"choices", c>>

\* Python hash() of the dumped string, distinct for distinct strings here
hash(json) == IF json[1] = "messages" THEN 2 * json[2] ELSE 2 * json[2] + 1

RequestInput_hash(c) == hash(RequestInput_model_dump_json(c))

ResponseOutput_hash(c) == hash(ResponseOutput_model_dump_json(c))

(***************************************************************************)
(* multipart_fields.multipart_field_order and the stable list.sort of      *)
(* MultipartResponse.build_content.                                        *)
(***************************************************************************)
\* a key that orders the names it does not know after metadata
multipart_field_order_unknown_last(field) ==
    IF field = INPUT_NAME THEN 0
    ELSE IF field = RESPONSE_NAME THEN 1
    ELSE IF field = REJECT_NAME THEN 2
    ELSE IF field = METADATA_NAME THEN 3
    ELSE 4

multipart_field_order(field) ==
    IF field = INPUT_NAME THEN 0
    ELSE IF field = RESPONSE_NAME THEN 1
    ELSE IF field = REJECT_NAME THEN 2
    ELSE IF field = METADATA_NAME THEN 3
    ELSE 0

\* insert f after the last element whose key is <= the key of f
RECURSIVE InsertByOrder(_, _)
InsertByOrder(sorted, f) ==
    IF sorted = <<>> THEN <<f>>
    ELSE IF multipart_field_order(sorted[Len(sorted)].name) <= multipart_field_order(f.name)
         THEN Append(sorted, f)
         ELSE Append(InsertByOrder(SubSeq(sorted, 1, Len(sorted) - 1), f), sorted[Len(sorted)])

RECURSIVE SortFields(_)
SortFields(fields) ==
    IF fields = <<>> THEN <<>>
    ELSE InsertByOrder(SortFields(SubSeq(fields, 1, Len(fields) - 1)), fields[Len(fields)])

MultipartResponseField(name, content) == [name |-> name, content |-> content]

\* an HTTP response: status, Content-Type, the multipart parts in wire
\* order and, for a JSON error body, the detail and the messages
HttpResponse(status_code, media_type, parts, detail) ==
    [status_code |-> status_code, media_type |-> media_type, parts |-> parts,
     detail |-> detail, messages |-> <<>>]

NoResponse == HttpResponse(0, "", <<>>, "")

Returned(v) == [raised |-> FALSE, error |-> NoError, value |-> v]

Raised(err) == [raised |-> TRUE, error |-> err, value |-> NoResponse]

\* MultipartResponse.__init__ with build_content
MultipartResponse(status_code, fields) ==
    IF status_code < 1 \/ status_code > 599
    THEN Raised(ResponseObjectError)
    ELSE IF ~\E i \in 1..Len(fields) : fields[i].name = "metadata"
    THEN Raised(ResponseObjectError)
    ELSE Returned(HttpResponse(status_code, "multipart/form-data", SortFields(fields), ""))

(***************************************************************************)
(* result.py: Result and Reject.  Both are records of one shape:           *)
(* kind, modified_prompt, modified_response (None or Some(content)),       *)
(* metadata, processor_result (None or Some(dict)), tags, code.            *)
(***************************************************************************)
OptContents == {None} \cup {Some(c) : c \in Contents}

RejectCodes == {"AIGW_POLICY_VIOLATION"}

Result(modified_prompt, modified_response, metadata, processor_result, tags) ==
    [kind |-> "Result", modified_prompt |-> modified_prompt,
     modified_response |-> modified_response, metadata |-> metadata,
     processor_result |-> processor_result, tags |-> tags, code |-> "", exc |-> NoError]

Reject(code, metadata, tags, processor_result) ==
    [kind |-> "Reject", modified_prompt |-> None, modified_response |-> None,
     metadata |-> Some(metadata), processor_result |-> processor_result,
     tags |-> tags, code |-> code, exc |-> NoError]

\* bool(x) of an optional dict
OptTruthy(o) == ~IsNone(o) /\ Truthy(Get(o))

\* Result.modified
Result_modified(r) == ~IsNone(r.modified_prompt) \/ ~IsNone(r.modified_response)

\* Result.is_empty
Result_is_empty(r) ==
    ~(\/ OptTruthy(r.metadata)
      \/ ~IsNone(r.modified_response)
      \/ ~IsNone(r.modified_prompt)
      \/ OptTruthy(r.processor_result)
      \/ TagsBool(r.tags))

\* a gate that logs the warnings and drops nothing
validate_allowed_logging_only(r, annotate, modify) ==
    [result |-> r,
     modify_warnings |-> IF Result_modified(r) /\ ~modify THEN 1 ELSE 0,
     annotate_warnings |-> IF TagsBool(r.tags) /\ ~annotate THEN 1 ELSE 0]

\* Result.validate_allowed: the gated result and the warnings it logs
validate_allowed(r, annotate, modify) ==
    LET dropModify == Result_modified(r) /\ ~modify
        dropTags == TagsBool(r.tags) /\ ~annotate
        r1 == IF dropModify
              THEN [r EXCEPT !.modified_prompt = None, !.modified_response = None]
              ELSE r
        r2 == IF dropTags THEN [r1 EXCEPT !.tags = EmptyTags] ELSE r1
    IN  [result |-> r2,
         modify_warnings |-> IF dropModify THEN 1 ELSE 0,
         annotate_warnings |-> IF dropTags THEN 1 ELSE 0]

convert_metadata_to_multipart_field(meta) == MultipartResponseField(METADATA_NAME, meta)

\* Result.to_response
Result_to_response(r) ==
    IF /\ ~OptTruthy(r.metadata)
       /\ ~TagsBool(r.tags)
       /\ ~OptTruthy(r.processor_result)
       /\ IsNone(r.modified_prompt)
       /\ IsNone(r.modified_response)
    THEN Returned(HttpResponse(HTTP_204_NO_CONTENT, "", <<>>, ""))
    ELSE LET m0 == IF OptTruthy(r.metadata) THEN Get(r.metadata) ELSE EmptyDict
             m1 == IF OptTruthy(r.processor_result)
                   THEN Put(m0, "processor_result", Get(r.processor_result))
                   ELSE m0
             m2 == IF TagsBool(r.tags) THEN Put(m1, "tags", Tags_to_response(r.tags)) ELSE m1
             content == IF ~IsNone(r.modified_response)
                        THEN <<MultipartResponseField(RESPONSE_NAME,
                                 ResponseOutput_model_dump_json(Get(r.modified_response)))>>
                        ELSE IF ~IsNone(r.modified_prompt)
                        THEN <<MultipartResponseField(INPUT_NAME,
                                 RequestInput_model_dump_json(Get(r.modified_prompt)))>>
                        ELSE <<>>
         IN  MultipartResponse(HTTP_200_OK,
                 <<convert_metadata_to_multipart_field(m2)>> \o content)

\* Reject.to_multipart_field: model_dump_json excludes metadata and tags
Reject_to_multipart_field(r) ==
    MultipartResponseField(REJECT_NAME,
        [code |-> r.code, processor_result |-> r.processor_result])

\* Reject.to_response
Reject_to_response(r) ==
    LET m0 == Get(r.metadata)
        m1 == IF TagsBool(r.tags) THEN Put(m0, "tags", Tags_to_response(r.tags)) ELSE m0
        m2 == IF OptTruthy(r.processor_result)
              THEN Put(m1, "processor_result", Get(r.processor_result))
              ELSE m1
    IN  MultipartResponse(HTTP_200_OK,
            <<Reject_to_multipart_field(r), convert_metadata_to_multipart_field(m2)>>)

(***************************************************************************)
(* processor.py: the Processor and the stages of _parse_and_process.       *)
(***************************************************************************)
\* Processor.id() and Processor.version of the processor under test
PROCESSOR_ID == "namespace:name"

PROCESSOR_VERSION == "v1"

RETURNED_NONE_DETAIL == "Processor[namespace:name] process() method returned None"

\* the app_details a Processor can be constructed with
AppDetails == {None, Some([version |-> "1.0"])}

\* Processor._parse_and_validate_content_type_header on the kinds of
\* Content-Type header a request can carry
HeaderKinds == {"missing", "empty", "text/plain", "no boundary", "multipart/form-data"}

parse_and_validate_content_type_header(header) ==
    IF header = "missing"
    THEN Raise(UnexpectedContentTypeError("Content-Type header missing"))
    ELSE IF header = "empty"
    THEN Raise(UnexpectedContentTypeError("Content-Type header is empty"))
    ELSE IF header = "text/plain"
    THEN Raise(UnexpectedContentTypeError(
             "Content-Type header mismatch - expecting: multipart/form-data"))
    ELSE IF header = "no boundary"
    THEN Raise(UnexpectedContentTypeError("Content-Type header missing boundary"))
    ELSE Return(None)

\* the bodies of the parts of a form; a part that is absent has one body
AbsentParameters == [annotate |-> TRUE, modify |-> FALSE, reject |-> FALSE, wellformed |-> TRUE]

MetadataBodies ==
    {[kind |-> "object", value |-> m] : m \in InboundMetadata}
    \cup {[kind |-> "array", value |-> EmptyDict], [kind |-> "malformed", value |-> EmptyDict]}

AbsentMetadata == [kind |-> "absent", value |-> EmptyDict]

\* content bodies: JSON of a content of Contents, a body that the model
\* validator refuses, or no part
ContentBodies ==
    {[kind |-> "valid", content |-> c] : c \in Contents}
    \cup {[kind |-> "malformed", content |-> 0]}

Absent == [kind |-> "absent", content |-> 0]

\* the requests whose Content-Type header passed: a decoded form and the
\* body of each part it carries
Requests ==
    UNION {
        {[header |-> "multipart/form-data", form |-> form, parameters |-> pb, metadata |-> mb, prompt |-> ib, response |-> rb] :
            pb \in IF {INPUT_PARAMETERS_NAME, RESPONSE_PARAMETERS_NAME} \cap form # {}
                   THEN ParameterBodies ELSE {AbsentParameters},
            mb \in IF METADATA_NAME \in form THEN MetadataBodies ELSE {AbsentMetadata},
            ib \in IF INPUT_NAME \in form THEN ContentBodies ELSE {Absent},
            rb \in IF RESPONSE_NAME \in form THEN ContentBodies ELSE {Absent}} :
        form \in SUBSET FieldNames}

NoRequest == [header |-> "", form |-> {}, parameters |-> AbsentParameters, metadata |-> AbsentMetadata,
              prompt |-> Absent, response |-> Absent]

\* Processor._metadata_transform
metadata_transform(body) ==
    IF body.kind = "malformed"
    THEN [raised |-> TRUE, error |-> MultipartParseError("Unable to parse JSON field [metadata]"),
          value |-> None]
    ELSE IF body.kind # "object"
    THEN [raised |-> TRUE, error |-> MetadataParseError("metadata must be a JSON object"),
          value |-> None]
    ELSE [raised |-> FALSE, error |-> NoError, value |-> Some(body.value)]

\* Processor._input_transform under _extract_multipart_field
input_transform(body) ==
    IF body.kind # "valid"
    THEN [raised |-> TRUE, error |-> PromptParseError, value |-> None]
    ELSE [raised |-> FALSE, error |-> NoError, value |-> Some(body.content)]

\* Processor._response_transform under _extract_multipart_field
response_transform(body) ==
    IF body.kind # "valid"
    THEN [raised |-> TRUE, error |-> ResponseParseError, value |-> None]
    ELSE [raised |-> FALSE, error |-> NoError, value |-> Some(body.content)]

NoParsed == [parameters |-> DefaultParameters, metadata |-> None,
             prompt |-> None, response |-> None]

\* an extraction that never reads the parameters part
extract_parameters_default(parameters_field, body) ==
    [raised |-> FALSE, error |-> NoError, value |-> DefaultParameters]

\* lines 778-794: the parameters of the field the validator named, or the
\* default-constructed parameters_class
extract_parameters(parameters_field, body) ==
    IF ~IsNone(parameters_field)
    THEN parameters_transform(body)
    ELSE [raised |-> FALSE, error |-> NoError, value |-> DefaultParameters]

\* a transformation that goes on after a prompt that does not parse
parse_multipart_fields_lenient(sig, req) ==
    LET found == validate_and_find_parameters_name(sig, req.form)
        parameters == extract_parameters(found.name, req.parameters)
        metadata == IF METADATA_NAME \in req.form
                    THEN metadata_transform(req.metadata)
                    ELSE [raised |-> FALSE, error |-> NoError, value |-> None]
        prompt == IF INPUT_NAME \in req.form
                  THEN input_transform(req.prompt)
                  ELSE [raised |-> FALSE, error |-> NoError, value |-> None]
        resp == IF RESPONSE_NAME \in req.form
                THEN response_transform(req.response)
                ELSE [raised |-> FALSE, error |-> NoError, value |-> None]
        fail(err) == [raised |-> TRUE, error |-> err, value |-> NoParsed]
    IN  IF found.raised THEN fail(found.error)
        ELSE IF parameters.raised THEN fail(parameters.error)
        ELSE IF metadata.raised THEN fail(metadata.error)
        ELSE IF resp.raised THEN fail(resp.error)
        ELSE [raised |-> FALSE, error |-> NoError,
              value |-> [parameters |-> parameters.value, metadata |-> metadata.value,
                         prompt |-> prompt.value, response |-> resp.value]]

\* Processor._parse_multipart_fields: validation, then the transformation
\* of parameters, metadata, prompt and response, in that order
parse_multipart_fields(sig, req) ==
    LET found == validate_and_find_parameters_name(sig, req.form)
        parameters == extract_parameters(found.name, req.parameters)
        metadata == IF METADATA_NAME \in req.form
                    THEN metadata_transform(req.metadata)
                    ELSE [raised |-> FALSE, error |-> NoError, value |-> None]
        prompt == IF INPUT_NAME \in req.form
                  THEN input_transform(req.prompt)
                  ELSE [raised |-> FALSE, error |-> NoError, value |-> None]
        resp == IF RESPONSE_NAME \in req.form
                THEN response_transform(req.response)
                ELSE [raised |-> FALSE, error |-> NoError, value |-> None]
        fail(err) == [raised |-> TRUE, error |-> err, value |-> NoParsed]
    IN  IF found.raised THEN fail(found.error)
        ELSE IF parameters.raised THEN fail(parameters.error)
        ELSE IF metadata.raised THEN fail(metadata.error)
        ELSE IF prompt.raised THEN fail(prompt.error)
        ELSE IF resp.raised THEN fail(resp.error)
        ELSE [raised |-> FALSE, error |-> NoError,
              value |-> [parameters |-> parameters.value, metadata |-> metadata.value,
                         prompt |-> prompt.value, response |-> resp.value]]

\* a direction decided by the prompt alone
input_direction_prompt_only(prompt, resp) == ~IsNone(prompt)

\* input_direction = prompt is not None and response is None
input_direction(prompt, resp) == ~IsNone(prompt) /\ IsNone(resp)

(***************************************************************************)
(* What a handler (process_input / process_response, or the deprecated     *)
(* process behind _process_fallback) can do: return a Result or a Reject,  *)
(* return None or an object of another type, or raise.                     *)
(***************************************************************************)
NotAResult(kind, exc) ==
    [kind |-> kind, modified_prompt |-> None, modified_response |-> None,
     metadata |-> None, processor_result |-> None, tags |-> EmptyTags,
     code |-> "", exc |-> exc]

ProcessorResults == {None, Some([found |-> TRUE])}

\* a Result is mutable after construction, so a handler can also return one
\* with both modifications set (here to the same content)
Results ==
    {Result(mm[1], mm[2], md, pr, tags) :
        mm \in {m \in OptContents \X OptContents :
                   IsNone(m[1]) \/ IsNone(m[2]) \/ m[1] = m[2]},
        md \in {None} \cup {Some(m) : m \in HandlerMetadata},
        pr \in ProcessorResults, tags \in TagsValues}

Rejects ==
    {Reject(code, md, tags, pr) :
        code \in RejectCodes, md \in HandlerMetadata,
        tags \in TagsValues, pr \in ProcessorResults}

HANDLER_DETAIL == "handler detail"

\* None (or a falsy value), an object without the attributes of a Result,
\* an object of another type that has them, and the exceptions
OtherOutcomes ==
    {NotAResult("None", NoError),
     NotAResult("Object", NoError),
     NotAResult("ResultLike", NoError),
     NotAResult("raise ProcessExecutionError", ProcessExecutionError(HANDLER_DETAIL)),
     NotAResult("raise ResponseObjectError", ResponseObjectError),
     NotAResult("raise ProcessorError", ProcessorError(HTTP_400_BAD_REQUEST, HANDLER_DETAIL)),
     NotAResult("raise TypeError", NoError)}

Outcomes == Results \cup Rejects \cup OtherOutcomes

NoOutcome == NotAResult("", NoError)

IsRaise(o) ==
    o.kind \in {"raise ProcessExecutionError", "raise ResponseObjectError",
                "raise ProcessorError", "raise TypeError"}

(***************************************************************************)
(* _parse_and_process after the handler: lines 905-1003.                   *)
(***************************************************************************)
\* result.is_empty as the code reads it: a property on Result, a bound
\* method (always truthy) on Reject
IsEmptyAttr(r) == IF r.kind = "Result" THEN Result_is_empty(r) ELSE TRUE

\* an app_details forwarded from the metadata of the request
stamp_app_details_forwarded(m, inbound, details) ==
    IF "app_details" \in DOMAIN inbound THEN Put(m, "app_details", inbound["app_details"]) ELSE m

\* lines 924-925: the app_details the Processor was constructed with
stamp_app_details(m, inbound, details) ==
    IF ~IsNone(details) THEN Put(m, "app_details", Get(details)) ELSE m

\* a stamping that keeps the values the handler put in the metadata
stamp_metadata_keep_handler(r, inbound, details) ==
    IF IsNone(r.metadata) THEN r
    ELSE LET keep(m, k, v) == IF k \in DOMAIN m THEN m ELSE Put(m, k, v)
             m1 == keep(keep(Get(r.metadata), "processor_id", PROCESSOR_ID),
                        "processor_version", PROCESSOR_VERSION)
             m2 == IF "request_id" \in DOMAIN inbound
                   THEN keep(m1, "request_id", inbound["request_id"]) ELSE m1
         IN  [r EXCEPT !.metadata = Some(m2)]

\* lines 912-925: create and stamp the outcome's metadata
stamp_metadata(r, inbound, details) ==
    LET md0 == IF IsNone(r.metadata) /\ ~IsEmptyAttr(r) THEN Some(EmptyDict) ELSE r.metadata
    IN  IF IsNone(md0) THEN r
        ELSE LET m1 == Put(Put(Get(md0), "processor_id", PROCESSOR_ID),
                           "processor_version", PROCESSOR_VERSION)
                 m2 == IF "request_id" \in DOMAIN inbound
                       THEN Put(m1, "request_id", inbound["request_id"]) ELSE m1
                 m3 == IF "step_id" \in DOMAIN inbound
                       THEN Put(m2, "step_id", inbound["step_id"]) ELSE m2
                 m4 == stamp_app_details(m3, inbound, details)
             IN  [r EXCEPT !.metadata = Some(m4)]

\* lines 940-946: is the modification different from what was submitted
detect_modified(r, prompt_hash, response_hash) ==
    \/ /\ ~IsNone(r.modified_prompt)
       /\ prompt_hash # Some(RequestInput_hash(Get(r.modified_prompt)))
    \/ /\ ~IsNone(r.modified_response)
       /\ response_hash # Some(ResponseOutput_hash(Get(r.modified_response)))

\* lines 950-955: do not send back unmodified data
drop_unmodified(r, modified) ==
    IF ~modified /\ (~IsNone(r.modified_prompt) \/ ~IsNone(r.modified_response))
    THEN [r EXCEPT !.modified_prompt = None, !.modified_response = None]
    ELSE r

NoLog == [modify |-> 0, annotate |-> 0, reject |-> 0]

Done(resp, lg) == [raised |-> FALSE, error |-> NoError, value |-> resp, log |-> lg]

Failed(err, lg) == [raised |-> TRUE, error |-> err, value |-> NoResponse, log |-> lg]

\* result.to_response() under the try of lines 1000-1003
to_response(r) ==
    LET resp == IF r.kind = "Result" THEN Result_to_response(r) ELSE Reject_to_response(r)
    IN  IF resp.raised THEN Raised(ResponseObjectError) ELSE resp

\* lines 936-986 for a Result
gate_result(r, ps, hs) ==
    LET modified == detect_modified(r, hs.prompt_hash, hs.response_hash)
        kept == drop_unmodified(r, modified)
        gated == validate_allowed(kept, ps.parameters.annotate, ps.parameters.modify)
    IN  [result |-> gated.result,
         log |-> [modify |-> gated.modify_warnings, annotate |-> gated.annotate_warnings,
                  reject |-> 0]]

\* a Reject that is sent whatever parameters.reject says
gate_reject_unconditional(r, ps) == [result |-> r, log |-> NoLog]

\* lines 971-979 for a Reject
gate_reject(r, ps) ==
    IF ~ps.parameters.reject
    THEN [result |-> Result(None, None, r.metadata, None, EmptyTags),
          log |-> [modify |-> 0, annotate |-> 0, reject |-> 1]]
    ELSE [result |-> r, log |-> NoLog]

\* an except clause that re-raises every error of the ProcessorError family
handler_exception_family(o) ==
    IF o.kind = "raise TypeError" THEN ProcessExecutionError(GENERIC_EXECUTION_DETAIL)
    ELSE o.exc

\* lines 990-993: a ProcessExecutionError or ResponseObjectError is
\* re-raised, any other exception becomes the default ProcessExecutionError
handler_exception(o) ==
    IF o.kind \in {"raise ProcessExecutionError", "raise ResponseObjectError"}
    THEN o.exc
    ELSE ProcessExecutionError(GENERIC_EXECUTION_DETAIL)

\* the outcome of the handler to the response of _parse_and_process
process_outcome(o, ps, hs, details) ==
    IF IsRaise(o)
    THEN Failed(handler_exception(o), NoLog)
    ELSE IF o.kind = "None"
    THEN Failed(ProcessExecutionError(RETURNED_NONE_DETAIL), NoLog)
    ELSE IF o.kind = "Object"
    THEN Failed(ProcessExecutionError(GENERIC_EXECUTION_DETAIL), NoLog)
    ELSE IF o.kind = "ResultLike"
    THEN Failed(ResponseObjectError, NoLog)
    ELSE LET stamped == stamp_metadata(o, Get(ps.metadata), details)
             gated == IF stamped.kind = "Result"
                      THEN gate_result(stamped, ps, hs)
                      ELSE gate_reject(stamped, ps)
             resp == to_response(gated.result)
         IN  IF resp.raised THEN Failed(resp.error, gated.log)
             ELSE Done(resp.value, gated.log)

\* an error response that tells the client nothing of the error
error_response_generic(err) ==
    HttpResponse(HTTP_500_INTERNAL_SERVER_ERROR, "application/json", <<>>,
                 GENERIC_EXECUTION_DETAIL)

\* handle_request: a ProcessorError becomes a JSON error response whose
\* body is ProcessorError.json_error()
error_response(err) ==
    [HttpResponse(err.status_code, "application/json", <<>>, err.detail)
        EXCEPT !.messages = err.messages]

(***************************************************************************)
(* The state machine of one POST execute request on a constructed          *)
(* Processor: Idle, ContentTypeValidated, Invoked, then Serialized or      *)
(* ErrorResponse.                                                          *)
(***************************************************************************)
NoHashes == [prompt_hash |-> None, response_hash |-> None]

\* the methods a Processor subclass can override, the arguments of the
\* constructor under way and the exception a constructor raised
Methods == {"process", "process_input", "process_response"}

NoArgs ==
    [kind |-> "", required |-> None, optional |-> None,
     modified_prompt |-> None, modified_response |-> None, fields |-> <<>>,
     initial_tags |-> None, key |-> "", values |-> <<>>, before |-> EmptyTags,
     data |-> [content |-> [kind |-> "absent", value |-> ""], role |-> None,
               extra |-> EmptyDict],
     assigned |-> None]

\* a Message object: the fields, the extra fields and the private attribute
NoMessage ==
    [content |-> "", role |-> "", extra |-> EmptyDict, _content_parsed_as_null |-> FALSE]

\* the JSON object of a serialised Message
NoSerialized == [content |-> [kind |-> "absent", value |-> ""], role |-> "", extra |-> EmptyDict]

Exception(type, msg) == [type |-> type, message |-> msg]

NoException == Exception("", "")

Init ==
    /\ signature \in Signatures
    /\ app_details \in AppDetails
    /\ pc = "Idle"
    /\ request = NoRequest
    /\ validated = Return(None)
    /\ parsed = NoParsed
    /\ hashes = NoHashes
    /\ handler = ""
    /\ outcome = NoOutcome
    /\ log = NoLog
    /\ response = NoResponse
    /\ overrides = {"process_input", "process_response"}
    /\ args = NoArgs
    /\ exception = NoException
    /\ _tags = EmptyTags
    /\ message = NoMessage
    /\ serialized = NoSerialized
    /\ calls = 0
    /\ inflight = <<>>

\* _parse_and_process up to request.form(): the Content-Type header check
ContentTypeHeader ==
    /\ pc = "Idle"
    /\ \E h \in HeaderKinds :
         LET checked == parse_and_validate_content_type_header(h)
         IN  /\ request' = [NoRequest EXCEPT !.header = h]
             /\ IF checked.raised
                THEN /\ pc' = "ErrorResponse"
                     /\ response' = error_response(checked.error)
                ELSE /\ pc' = "ContentTypeValidated"
                     /\ response' = response
    /\ UNCHANGED <<signature, app_details, validated, parsed, hashes, handler, outcome, log>>
    /\ UNCHANGED <<overrides, args, exception, _tags, message, serialized, calls, inflight>>

\* _parse_and_process from the decoded form to the call of the handler:
\* _parse_multipart_fields, the direction, the before-change hash
ParseAndInvoke ==
    /\ pc = "ContentTypeValidated"
    /\ \E req \in Requests :
         LET fields == parse_multipart_fields(signature, req)
             prompt == fields.value.prompt
             resp == fields.value.response
         IN  /\ request' = req
             /\ validated' = validate_and_find_parameters_name(signature, req.form)
             /\ IF fields.raised
                THEN /\ pc' = "ErrorResponse"
                     /\ response' = error_response(fields.error)
                     /\ UNCHANGED <<parsed, hashes, handler>>
                ELSE IF IsNone(fields.value.metadata)
                THEN /\ pc' = "ErrorResponse"
                     /\ response' = error_response(MissingMultipartFieldError(METADATA_NAME))
                     /\ parsed' = fields.value
                     /\ UNCHANGED <<hashes, handler>>
                ELSE IF ~input_direction(prompt, resp) /\ IsNone(resp)
                THEN /\ pc' = "ErrorResponse"
                     /\ response' =
                            error_response(ProcessExecutionError(GENERIC_EXECUTION_DETAIL))
                     /\ parsed' = fields.value
                     /\ UNCHANGED <<hashes, handler>>
                ELSE /\ pc' = "Invoked"
                     /\ parsed' = fields.value
                     /\ hashes' = IF input_direction(prompt, resp)
                                  THEN [prompt_hash |-> Some(RequestInput_hash(Get(prompt))),
                                        response_hash |-> None]
                                  ELSE [prompt_hash |-> None,
                                        response_hash |-> Some(ResponseOutput_hash(Get(resp)))]
                     /\ handler' = IF input_direction(prompt, resp)
                                   THEN "process_input" ELSE "process_response"
                     /\ response' = response
    /\ UNCHANGED <<signature, app_details, outcome, log>>
    /\ UNCHANGED <<overrides, args, exception, _tags, message, serialized, inflight>>
    /\ calls' = IF pc' = "Invoked" THEN calls + 1 ELSE calls

\* the handler completes: normalisation, policy gate and serialisation
HandlerCompletes ==
    /\ pc = "Invoked"
    /\ \E o \in Outcomes :
         LET done == process_outcome(o, parsed, hashes, app_details)
         IN  /\ outcome' = o
             /\ log' = done.log
             /\ IF done.raised
                THEN /\ pc' = "ErrorResponse"
                     /\ response' = error_response(done.error)
                ELSE /\ pc' = "Serialized"
                     /\ response' = done.value
    /\ UNCHANGED <<signature, app_details, request, validated, parsed, hashes, handler>>
    /\ UNCHANGED <<overrides, args, exception, _tags, message, serialized, calls, inflight>>

Next == ContentTypeHeader \/ ParseAndInvoke \/ HandlerCompletes

Spec == Init /\ [][Next]_vars

(***************************************************************************)
(* The constructors and the serialisers of the objects of the SDK, applied *)
(* to arguments drawn from bounded sets: Signature, the Processor subclass *)
(* and instance, the dispatch of a valid form to a handler, Result, and    *)
(* MultipartResponse.                                                      *)
(***************************************************************************)
\* the sets a caller can pass to Signature: None, the empty set, a set of fields
RawSets == {None} \cup {Some(s) : s \in SUBSET SignatureField}

\* frozenset(x) if x else None
Freeze(s) == IF ~IsNone(s) /\ Get(s) # {} THEN s ELSE None

\* Signature.__post_init__
Signature_post_init(required, optional) ==
    IF IsNone(required) /\ IsNone(optional)
    THEN [raised |-> TRUE,
          exception |-> Exception("ValueError",
                            "Signature must have at least one of required or optional"),
          value |-> [required |-> None, optional |-> None]]
    ELSE [raised |-> FALSE, exception |-> NoException,
          value |-> [required |-> Freeze(required), optional |-> Freeze(optional)]]

\* Processor.__init_subclass__ for a subclass that overrides the methods ov
\* (the check that the deprecated process is not async is left out)
init_subclass(ov) ==
    IF ov \cap Methods = {}
    THEN Exception("TypeError",
             "Cannot create concrete class P. It must override AT LEAST ONE of the following methods: 'process_input', 'process_response'. Or alternatively the DEPRECATED 'process' method.")
    ELSE IF "process" \in ov /\ ov \cap {"process_input", "process_response"} # {}
    THEN Exception("TypeError",
             "Cannot create concrete class P. The DEPRECATED 'process' method must not be implemented alongside 'process_input' or 'process_response'.")
    ELSE NoException

\* Processor._is_method_overridden
is_method_overridden(ov, method_name) == method_name \in ov

INPUT_NOT_IMPLEMENTED ==
    "Cannot create concrete class P. Provided Signature supports input but 'process_input' is not implemented."

RESPONSE_NOT_IMPLEMENTED ==
    "Cannot create concrete class P. Provided Signature supports response but 'process_response' is not implemented."

\* a constructor that accepts every signature
validate_supported_direction_unchecked(ov, sig) == NoException

\* Processor._validate_supported_direction
validate_supported_direction(ov, sig) ==
    LET supportsInput == is_method_overridden(ov, "process")
                           \/ is_method_overridden(ov, "process_input")
        supportsResponse == is_method_overridden(ov, "process")
                              \/ is_method_overridden(ov, "process_response")
    IN  IF supports_input(sig) /\ ~supportsInput
        THEN Exception("TypeError", INPUT_NOT_IMPLEMENTED)
        ELSE IF supports_response(sig) /\ ~supportsResponse
        THEN Exception("TypeError", RESPONSE_NOT_IMPLEMENTED)
        ELSE NoException

\* the method body that runs when the dispatcher calls self.<method_name>:
\* the override, or the base method, which falls back to the deprecated
\* process or raises NotImplementedError
call_handler(ov, method_name) ==
    IF is_method_overridden(ov, method_name) THEN method_name
    ELSE IF is_method_overridden(ov, "process") THEN "process"
    ELSE "NotImplementedError"

\* a Result without the validator
check_prompt_or_response_skipped(modified_prompt, modified_response) == TRUE

\* Result.check_prompt_or_response
check_prompt_or_response(modified_prompt, modified_response) ==
    ~(~IsNone(modified_prompt) /\ ~IsNone(modified_response))

\* RequestInput(messages=[]) / ResponseOutput(choices=[])
EmptyContent == 0

\* the modifications a caller can pass to Result
RawContents == {None} \cup {Some(c) : c \in Contents \cup {EmptyContent}}

\* the names and the contents of the fields of a MultipartResponse
ResponseFieldNames == {INPUT_NAME, RESPONSE_NAME, REJECT_NAME, METADATA_NAME, UnknownPool[1]}

FieldLists ==
    UNION {[1..n -> {MultipartResponseField(name, content) :
                        name \in ResponseFieldNames, content \in {"", "{}"}}] :
           n \in 0..MaxFields}

\* encode_multipart_field refuses a field without content: the parts the
\* stream of build_content emits before it fails, or all of them
Streamed(parts) ==
    LET empty == {i \in 1..Len(parts) : parts[i].content = ""}
    IN  IF empty = {} THEN parts
        ELSE SubSeq(parts, 1, (CHOOSE i \in empty : \A j \in empty : i <= j) - 1)

InitObjects ==
    /\ signature = [required |-> None, optional |-> None]
    /\ app_details = None
    /\ request = NoRequest
    /\ validated = Return(None)
    /\ parsed = NoParsed
    /\ hashes = NoHashes
    /\ handler = ""
    /\ outcome = NoOutcome
    /\ log = NoLog
    /\ response = NoResponse
    /\ exception = NoException
    /\ _tags = EmptyTags
    /\ message = NoMessage
    /\ serialized = NoSerialized
    /\ calls = 0
    /\ inflight = <<>>
    /\ \/ /\ pc = "NewSignature"
          /\ overrides \in SUBSET Methods
          /\ \E r \in RawSets, o \in RawSets :
                args = [NoArgs EXCEPT !.kind = "Signature", !.required = r, !.optional = o]
       \/ /\ pc = "NewResult"
          /\ overrides = {}
          /\ \E mp \in RawContents, mr \in RawContents :
                args = [NoArgs EXCEPT !.kind = "Result", !.modified_prompt = mp,
                                      !.modified_response = mr]
       \/ /\ pc = "NewFields"
          /\ overrides = {}
          /\ \E fs \in FieldLists :
                args = [NoArgs EXCEPT !.kind = "MultipartResponse", !.fields = fs]

\* Signature(required=..., optional=...)
ConstructSignature ==
    /\ pc = "NewSignature"
    /\ LET made == Signature_post_init(args.required, args.optional)
       IN  IF made.raised
           THEN /\ pc' = "ValueError"
                /\ exception' = made.exception
                /\ signature' = signature
           ELSE /\ pc' = "NewClass"
                /\ exception' = exception
                /\ signature' = made.value
    /\ UNCHANGED <<app_details, request, validated, parsed, hashes, handler, outcome, log,
                   response, overrides, args, _tags, message, serialized, calls, inflight>>

\* class P(Processor) with the overrides of the class body
DefineClass ==
    /\ pc = "NewClass"
    /\ exception' = init_subclass(overrides)
    /\ pc' = IF exception' = NoException THEN "NewProcessor" ELSE "TypeError"
    /\ UNCHANGED <<signature, app_details, request, validated, parsed, hashes, handler,
                   outcome, log, response, overrides, args, _tags, message, serialized, calls, inflight>>

\* P(): Processor.__init__ with the signature
ConstructProcessor ==
    /\ pc = "NewProcessor"
    /\ exception' = validate_supported_direction(overrides, signature)
    /\ pc' = IF exception' = NoException THEN "Constructed" ELSE "TypeError"
    /\ UNCHANGED <<signature, app_details, request, validated, parsed, hashes, handler,
                   outcome, log, response, overrides, args, _tags, message, serialized, calls, inflight>>

\* _parse_and_process on a form whose parts all have bodies it accepts:
\* validation, the direction and the call of self.process_input or
\* self.process_response
Dispatch ==
    /\ pc = "Constructed"
    /\ \E form \in SUBSET FieldNames :
         LET found == validate_and_find_parameters_name(signature, form)
             prompt == IF INPUT_NAME \in form THEN Some(1) ELSE None
             resp == IF RESPONSE_NAME \in form THEN Some(1) ELSE None
             method == IF input_direction(prompt, resp)
                       THEN "process_input" ELSE "process_response"
             body == call_handler(overrides, method)
         IN  /\ request' = [NoRequest EXCEPT !.header = "multipart/form-data", !.form = form]
             /\ validated' = found
             /\ IF found.raised
                THEN /\ pc' = "ErrorResponse"
                     /\ response' = error_response(found.error)
                     /\ UNCHANGED <<handler, exception>>
                ELSE IF body = "NotImplementedError"
                THEN /\ pc' = "ErrorResponse"
                     /\ handler' = method
                     /\ exception' = Exception("NotImplementedError", method)
                     /\ response' =
                            error_response(ProcessExecutionError(GENERIC_EXECUTION_DETAIL))
                ELSE /\ pc' = "Invoked"
                     /\ handler' = method
                     /\ exception' = exception
                     /\ response' = response
    /\ calls' = IF pc' = "Invoked" THEN calls + 1 ELSE calls
    /\ UNCHANGED <<signature, app_details, parsed, hashes, outcome, log, overrides, args, _tags,
                   message, serialized, inflight>>

\* Result(modified_prompt=..., modified_response=...)
ConstructResult ==
    /\ pc = "NewResult"
    /\ IF check_prompt_or_response(args.modified_prompt, args.modified_response)
       THEN /\ pc' = "ResultConstructed"
            /\ outcome' = Result(args.modified_prompt, args.modified_response,
                                  None, None, EmptyTags)
            /\ exception' = exception
       ELSE /\ pc' = "ValueError"
            /\ outcome' = outcome
            /\ exception' = Exception("ValueError",
                                "modified_prompt and modified_response are mutually exlusive")
    /\ UNCHANGED <<signature, app_details, request, validated, parsed, hashes, handler, log,
                   response, overrides, args, _tags, message, serialized, calls, inflight>>

\* result.modified_prompt = ... / result.modified_response = ... on a
\* constructed Result: pydantic does not validate an assignment
AssignModification ==
    /\ pc = "ResultConstructed"
    /\ \E c \in RawContents :
          \/ outcome' = [outcome EXCEPT !.modified_prompt = c]
          \/ outcome' = [outcome EXCEPT !.modified_response = c]
    /\ UNCHANGED <<signature, app_details, pc, request, validated, parsed, hashes, handler,
                   log, response, overrides, args, exception, _tags, message, serialized, calls, inflight>>

\* result.to_response()
SerializeResult ==
    /\ pc = "ResultConstructed"
    /\ LET made == Result_to_response(outcome)
       IN  /\ pc' = IF made.raised THEN "ValueError" ELSE "Serialized"
           /\ response' = made.value
    /\ UNCHANGED <<signature, app_details, request, validated, parsed, hashes, handler,
                   outcome, log, overrides, args, exception, _tags, message, serialized, calls, inflight>>

\* MultipartResponse(status_code=200, fields=...) and the stream of its body
BuildContent ==
    /\ pc = "NewFields"
    /\ LET made == MultipartResponse(HTTP_200_OK, args.fields)
           emitted == Streamed(made.value.parts)
       IN  IF made.raised
           THEN /\ pc' = "ValueError"
                /\ exception' = Exception("ValueError", "Metadata is required")
                /\ response' = response
           ELSE IF emitted # made.value.parts
           THEN /\ pc' = "StreamFailed"
                /\ exception' = Exception("ValueError", "content must be provided")
                /\ response' = [made.value EXCEPT !.parts = emitted]
           ELSE /\ pc' = "Streamed"
                /\ exception' = exception
                /\ response' = made.value
    /\ UNCHANGED <<signature, app_details, request, validated, parsed, hashes, handler,
                   outcome, log, overrides, args, _tags, message, serialized, calls, inflight>>

NextObjects ==
    \/ ConstructSignature
    \/ DefineClass
    \/ ConstructProcessor
    \/ Dispatch
    \/ ConstructResult
    \/ AssignModification
    \/ SerializeResult
    \/ BuildContent

SpecObjects == InitObjects /\ [][NextObjects]_vars

(***************************************************************************)
(* tags.py Tags: the constructor and the mutation API, applied to keys and *)
(* tags drawn from a pool of strings with upper-case, lower-case and empty *)
(* members.                                                                *)
(***************************************************************************)
\* the strings a caller passes as a key and as a tag
TagKeys == {"", "k", "K"}
TagStrs == {"", "x", "X", "y"}

\* str.lower
Lower(s) ==
    CASE s = "K" -> "k"
      [] s = "X" -> "x"
      [] OTHER -> s

\* [tag.lower() for tag in tags]
LowerAll(values) == [i \in 1..Len(values) |-> Lower(values[i])]

\* the lists of at most MaxTagList tags
TagLists == UNION {[1..n -> TagStrs] : n \in 0..MaxTagList}

\* the dicts a caller passes to Tags(): at most two items, in insertion order
InitialTags ==
    {None} \cup
    {Some(items) : items \in
        {s \in UNION {[1..n -> [key : TagKeys, values : TagLists]] : n \in 0..2} :
            \A i, j \in 1..Len(s) : i # j => s[i].key # s[j].key}}

\* Tags._validate_key
validate_key(key) == key # ""

\* Tags._validate_value_element
validate_value_element(element) == element # ""

\* Tags._validate_value
validate_value(value) ==
    /\ Len(value) >= 1
    /\ \A i \in 1..Len(value) : validate_value_element(value[i])

\* Tags._validate_tag
validate_tag(key, value) == validate_key(key) /\ validate_value(value)

RECURSIVE LowerItems(_)
\* the dict comprehension of Tags.__init__: a later item replaces an earlier
\* one with the same lowercase key
LowerItems(items) ==
    IF items = <<>> THEN EmptyTags
    ELSE LET last == items[Len(items)]
         IN  Put(LowerItems(SubSeq(items, 1, Len(items) - 1)),
                 Lower(last.key), LowerAll(last.values))

\* Tags.__init__: the _tags of the new object
Tags_init(initial_tags) ==
    IF IsNone(initial_tags) THEN [raised |-> FALSE, value |-> EmptyTags]
    ELSE IF \E i \in 1..Len(Get(initial_tags)) :
                ~validate_tag(Get(initial_tags)[i].key, Get(initial_tags)[i].values)
    THEN [raised |-> TRUE, value |-> EmptyTags]
    ELSE [raised |-> FALSE, value |-> LowerItems(Get(initial_tags))]

\* the elements of a list
Range(s) == {s[i] : i \in 1..Len(s)}

\* list(set(values)): the elements once each, in an order the hash decides
Orderings(S) ==
    {s \in [1..Cardinality(S) -> S] : \A i, j \in 1..Cardinality(S) : i # j => s[i] # s[j]}

\* the dict without the key
Del(d, key) == [k \in DOMAIN d \ {key} |-> d[k]]

\* Tags.add_tag after validation: the _tags it can leave
add_tag(t, key, values) ==
    LET k == Lower(key)
        tags_ == LowerAll(values)
    IN  IF k \notin DOMAIN t THEN {Put(t, k, tags_)}
        ELSE {Put(t, k, s) : s \in Orderings(Range(t[k] \o tags_))}

\* list.remove: the list without the first occurrence of the value
RemoveFirst(s, value) ==
    LET i == CHOOSE i \in 1..Len(s) : s[i] = value /\ \A j \in 1..(i - 1) : s[j] # value
    IN  SubSeq(s, 1, i - 1) \o SubSeq(s, i + 1, Len(s))

\* a remove_tag that leaves the key of an emptied list
remove_tag_keep_key(t, key, value) ==
    LET k == Lower(key)
        v == Lower(value)
    IN  IF k \in DOMAIN t /\ v \in Range(t[k]) THEN Put(t, k, RemoveFirst(t[k], v)) ELSE t

\* Tags.remove_tag after validation
remove_tag(t, key, value) ==
    LET k == Lower(key)
        v == Lower(value)
    IN  IF k \in DOMAIN t /\ v \in Range(t[k])
        THEN LET rest == RemoveFirst(t[k], v)
             IN  IF rest = <<>> THEN Del(t, k) ELSE Put(t, k, rest)
        ELSE t

\* Tags.remove_key after validation
remove_key(t, key) == IF Lower(key) \in DOMAIN t THEN Del(t, Lower(key)) ELSE t

\* Tags.get_tags after validation
get_tags(t, key) == IF Lower(key) \in DOMAIN t THEN t[Lower(key)] ELSE <<>>

INVALID_KEY == "All keys must be non-empty strings"
INVALID_LIST == "Must be an list with at least one element"
INVALID_ELEMENT == "All values in list must be non-empty strings"

\* the TypeError of _validate_tag
validate_tag_error(key, value) ==
    IF ~validate_key(key) THEN Exception("TypeError", INVALID_KEY)
    ELSE IF Len(value) < 1 THEN Exception("TypeError", INVALID_LIST)
    ELSE IF ~validate_value(value) THEN Exception("TypeError", INVALID_ELEMENT)
    ELSE NoException

InitTags ==
    /\ signature = [required |-> None, optional |-> None]
    /\ app_details = None
    /\ request = NoRequest
    /\ validated = Return(None)
    /\ parsed = NoParsed
    /\ hashes = NoHashes
    /\ handler = ""
    /\ outcome = NoOutcome
    /\ log = NoLog
    /\ response = NoResponse
    /\ exception = NoException
    /\ overrides = {}
    /\ _tags = EmptyTags
    /\ message = NoMessage
    /\ serialized = NoSerialized
    /\ calls = 0
    /\ inflight = <<>>
    /\ pc = "NewTags"
    /\ \E initial \in InitialTags :
          args = [NoArgs EXCEPT !.kind = "Tags", !.initial_tags = initial]

\* Tags(initial_tags)
ConstructTags ==
    /\ pc = "NewTags"
    /\ LET made == Tags_init(args.initial_tags)
       IN  IF made.raised
           THEN /\ pc' = "TypeError"
                /\ _tags' = _tags
                /\ exception' = Exception("TypeError", "")
           ELSE /\ pc' = "Tags"
                /\ _tags' = made.value
                /\ exception' = exception
    /\ UNCHANGED <<signature, app_details, request, validated, parsed, hashes, handler,
                   outcome, log, response, overrides, args, message, serialized, calls, inflight>>

\* tags.add_tag(key, *values)
AddTag ==
    /\ pc = "Tags"
    /\ \E key \in TagKeys, values \in TagLists :
          /\ args' = [NoArgs EXCEPT !.kind = "add_tag", !.key = key, !.values = values,
                                    !.before = _tags]
          /\ exception' = validate_tag_error(key, values)
          /\ IF exception' = NoException
             THEN _tags' \in add_tag(_tags, key, values)
             ELSE _tags' = _tags
    /\ UNCHANGED <<signature, app_details, pc, request, validated, parsed, hashes, handler,
                   outcome, log, response, overrides, message, serialized, calls, inflight>>

\* tags.remove_tag(key, value)
RemoveTag ==
    /\ pc = "Tags"
    /\ \E key \in TagKeys, value \in TagStrs :
          /\ args' = [NoArgs EXCEPT !.kind = "remove_tag", !.key = key, !.values = <<value>>,
                                    !.before = _tags]
          /\ exception' = IF ~validate_key(key) THEN Exception("TypeError", INVALID_KEY)
                          ELSE IF ~validate_value_element(value)
                          THEN Exception("TypeError", INVALID_ELEMENT)
                          ELSE NoException
          /\ _tags' = IF exception' = NoException THEN remove_tag(_tags, key, value) ELSE _tags
    /\ UNCHANGED <<signature, app_details, pc, request, validated, parsed, hashes, handler,
                   outcome, log, response, overrides, message, serialized, calls, inflight>>

\* tags.remove_key(key)
RemoveKey ==
    /\ pc = "Tags"
    /\ \E key \in TagKeys :
          /\ args' = [NoArgs EXCEPT !.kind = "remove_key", !.key = key, !.before = _tags]
          /\ exception' = IF ~validate_key(key) THEN Exception("TypeError", INVALID_KEY)
                          ELSE NoException
          /\ _tags' = IF exception' = NoException THEN remove_key(_tags, key) ELSE _tags
    /\ UNCHANGED <<signature, app_details, pc, request, validated, parsed, hashes, handler,
                   outcome, log, response, overrides, message, serialized, calls, inflight>>

NextTags == ConstructTags \/ AddTag \/ RemoveTag \/ RemoveKey

SpecTags == InitTags /\ [][NextTags]_vars

(***************************************************************************)
(* request_input.py Message: the parse of a JSON object, an assignment of  *)
(* content by the SDK user, and the serialisation.                         *)
(***************************************************************************)
\* JSON values of the content key: the key is absent, null, or a string
JsonAbsent == [kind |-> "absent", value |-> ""]
JsonNull == [kind |-> "null", value |-> ""]
JsonStr(s) == [kind |-> "str", value |-> s]

\* the key track_null_content adds to the data
TRACKING_KEY == "__content_parsed_as_null__"

\* MessageRole.USER, the default of Message.role
USER == "user"

\* the contents and the extra fields of the JSON objects parsed
ContentStrs == {"", "Hello world"}
ExtraFields ==
    LET keys == {"tool_calls", TRACKING_KEY}
        value(k) == IF k = "tool_calls" THEN {"[{id: call_abc}]"} ELSE {"true", "false"}
    IN  UNION {{f \in [ks -> UNION {value(k) : k \in ks}] : \A k \in ks : f[k] \in value(k)} :
               ks \in SUBSET keys}

MessageData ==
    {[content |-> c, role |-> r, extra |-> e] :
        c \in {JsonAbsent, JsonNull} \cup {JsonStr(x) : x \in ContentStrs},
        r \in {None, Some("tool")},
        e \in ExtraFields}

\* Message.track_null_content (mode="before")
track_null_content(data) ==
    IF data.content.kind \in {"absent", "null"}
    THEN [data EXCEPT !.extra = Put(data.extra, TRACKING_KEY, "true"),
                      !.content = JsonStr("")]
    ELSE data

\* the field validation of Message with extra="allow"
validate_fields(data) ==
    [content |-> data.content.value,
     role |-> IF IsNone(data.role) THEN USER ELSE Get(data.role),
     extra |-> data.extra,
     _content_parsed_as_null |-> FALSE]

\* Message.set_null_flag (mode="after")
set_null_flag(m) ==
    IF TRACKING_KEY \in DOMAIN m.extra
    THEN [m EXCEPT !._content_parsed_as_null = TRUE,
                   !.extra = [k \in DOMAIN m.extra \ {TRACKING_KEY} |-> m.extra[k]]]
    ELSE m

\* Message.model_validate
Message_model_validate(data) == set_null_flag(validate_fields(track_null_content(data)))

\* Message.serialize_content
serialize_content(m) ==
    IF m._content_parsed_as_null /\ Len(m.content) = 0 THEN JsonNull ELSE JsonStr(m.content)

\* Message.model_dump: the fields and the extra fields, no private attribute
Message_model_dump(m) == [content |-> serialize_content(m), role |-> m.role, extra |-> m.extra]

InitMessage ==
    /\ signature = [required |-> None, optional |-> None]
    /\ app_details = None
    /\ request = NoRequest
    /\ validated = Return(None)
    /\ parsed = NoParsed
    /\ hashes = NoHashes
    /\ handler = ""
    /\ outcome = NoOutcome
    /\ log = NoLog
    /\ response = NoResponse
    /\ exception = NoException
    /\ overrides = {}
    /\ _tags = EmptyTags
    /\ message = NoMessage
    /\ serialized = NoSerialized
    /\ calls = 0
    /\ inflight = <<>>
    /\ pc = "NewMessage"
    /\ \E data \in MessageData : args = [NoArgs EXCEPT !.kind = "Message", !.data = data]

\* Message.model_validate(data), as RequestInput.model_validate_json does
\* for every element of messages
ParseMessage ==
    /\ pc = "NewMessage"
    /\ message' = Message_model_validate(args.data)
    /\ pc' = "Message"
    /\ UNCHANGED <<signature, app_details, request, validated, parsed, hashes, handler,
                   outcome, log, response, overrides, args, exception, _tags, serialized, calls, inflight>>

\* message.content = ... by the SDK user
AssignContent ==
    /\ pc = "Message"
    /\ IsNone(args.assigned)
    /\ \E c \in ContentStrs \cup {"changed"} :
          /\ message' = [message EXCEPT !.content = c]
          /\ args' = [args EXCEPT !.assigned = Some(c)]
    /\ UNCHANGED <<signature, app_details, pc, request, validated, parsed, hashes, handler,
                   outcome, log, response, overrides, exception, _tags, serialized, calls, inflight>>

\* message.model_dump_json()
DumpMessage ==
    /\ pc = "Message"
    /\ serialized' = Message_model_dump(message)
    /\ pc' = "Dumped"
    /\ UNCHANGED <<signature, app_details, request, validated, parsed, hashes, handler,
                   outcome, log, response, overrides, args, exception, _tags, message, calls, inflight>>

NextMessage == ParseMessage \/ AssignContent \/ DumpMessage

SpecMessage == InitMessage /\ [][NextMessage]_vars

(***************************************************************************)
(* A handler that changes the prompt object it was given and returns it as *)
(* modified_prompt (tests/test_processor.py,                               *)
(* test_handle_modification_of_prompt_object and test_async_message).      *)
(***************************************************************************)
\* Processor._handle_process_function: a coroutine function is awaited,
\* any other function is called; the result is what the handler returned
handle_process_function(coroutine, result) == IF coroutine THEN result ELSE result

\* lines 884 and 894: the hash of the object as the handler receives it
before_change_hash(prompt, resp) ==
    IF input_direction(prompt, resp)
    THEN [prompt_hash |-> Some(RequestInput_hash(Get(prompt))), response_hash |-> None]
    ELSE [prompt_hash |-> None, response_hash |-> Some(ResponseOutput_hash(Get(resp)))]

\* hashes taken when the result is compared, on the objects as they are then
hashes_at_comparison_recomputed(hs, prompt, resp) == before_change_hash(prompt, resp)

\* lines 941 and 944: the comparison reads the locals set before the handler
hashes_at_comparison(hs, prompt, resp) == hs

\* process_input / process_response: prompt.messages.append(...) and
\* return Result(modified_prompt=prompt)
HandlerMutatesPrompt ==
    /\ pc = "Invoked"
    /\ ~IsNone(parsed.prompt)
    /\ \E c \in Contents \ {Get(parsed.prompt)}, coroutine \in BOOLEAN :
         LET mutated == [parsed EXCEPT !.prompt = Some(c)]
             result == handle_process_function(coroutine,
                           Result(mutated.prompt, None, None, None, EmptyTags))
             done == process_outcome(result, mutated,
                         hashes_at_comparison(hashes, mutated.prompt, mutated.response),
                         app_details)
         IN  /\ parsed' = mutated
             /\ outcome' = result
             /\ args' = [NoArgs EXCEPT !.kind = IF coroutine THEN "async def" ELSE "def"]
             /\ log' = done.log
             /\ IF done.raised
                THEN /\ pc' = "ErrorResponse"
                     /\ response' = error_response(done.error)
                ELSE /\ pc' = "Serialized"
                     /\ response' = done.value
    /\ UNCHANGED <<signature, app_details, request, validated, hashes, handler, overrides,
                   exception, _tags, message, serialized, calls, inflight>>

NextInPlace == ContentTypeHeader \/ ParseAndInvoke \/ HandlerMutatesPrompt

SpecInPlace == Init /\ [][NextInPlace]_vars

(***************************************************************************)
(* The wire form of the content parts and what the handler is given:       *)
(* _parse_and_process lines 861-874, _extract_charset_encoding,            *)
(* _extract_multipart_field and the conversion of lines 834-849, for a     *)
(* Processor constructed with a prompt_class and a response_class.         *)
(***************************************************************************)
\* multipart_fields.py
DEFAULT_ENCODING == "utf-8"
ALLOWED_ENCODINGS == {"utf-8", "us-ascii", "latin-1", "iso-8859-1"}

\* the charset parameter of a Content-Type: none, or the name of an
\* encoding; windows-1252 is outside ALLOWED_ENCODINGS
Charsets == {None, Some("utf-8"), Some("latin-1"), Some("windows-1252")}

\* errors.py InvalidEncoding
InvalidEncoding(detail) == ProcessorError(HTTP_400_BAD_REQUEST, detail)

UNSUPPORTED_ENCODING == "Unsupported text encoding: windows-1252"

\* prompt_class / response_class of Processor.__init__
PromptTypes == {"RequestInput", "StreamingPrompt"}
ResponseTypes == {"ResponseOutput", "StreamingResponse"}

\* a content part as Starlette hands it over: a str, or an UploadFile when
\* the part has a filename, with the charset of the Content-Type of the part
NoField == [present |-> FALSE, filename |-> FALSE, charset |-> None, body |-> Absent]

WireFields ==
    {[present |-> TRUE, filename |-> f, charset |-> cs, body |-> b] :
        f \in BOOLEAN, cs \in {None, Some("utf-8"), Some("windows-1252")},
        b \in {[kind |-> "valid", content |-> 1], [kind |-> "malformed", content |-> 0]}}

\* the requests of the wire model: metadata and a prompt, a response or both
WireRequests ==
    {[header |-> "multipart/form-data", charset |-> cs, form |-> form, prompt |-> p, response |-> r] :
        cs \in Charsets,
        form \in {{METADATA_NAME, INPUT_NAME}, {METADATA_NAME, RESPONSE_NAME},
                  {METADATA_NAME, INPUT_NAME, RESPONSE_NAME}},
        p \in WireFields \cup {NoField}, r \in WireFields \cup {NoField}}

\* Processor._extract_charset_encoding
extract_charset_encoding(charset, fallback_encoding) ==
    LET encoding == IF IsNone(charset) THEN fallback_encoding ELSE Get(charset)
    IN  IF encoding \notin ALLOWED_ENCODINGS
        THEN Raise(InvalidEncoding(UNSUPPORTED_ENCODING))
        ELSE [Return(None) EXCEPT !.name = Some(encoding)]

\* the object a content part becomes
Value(type, content) == [type |-> type, content |-> content]

\* Processor._input_transform / _response_transform with _field_to_json, which
\* reads a str and an UploadFile alike
content_transform(field, type, error) ==
    IF field.body.kind # "valid"
    THEN [raised |-> TRUE, error |-> error, value |-> None]
    ELSE [raised |-> FALSE, error |-> NoError, value |-> Some(Value(type, field.body.content))]

\* Processor._extract_multipart_field
extract_multipart_field(field, type, error, root_content_type_encoding, transform_function) ==
    IF ~field.present THEN [raised |-> FALSE, error |-> NoError, value |-> None]
    ELSE IF transform_function THEN content_transform(field, type, error)
    ELSE IF field.filename
    THEN LET encoding == extract_charset_encoding(field.charset, root_content_type_encoding)
         IN  IF encoding.raised
             THEN [raised |-> TRUE, error |-> encoding.error, value |-> None]
             ELSE [raised |-> FALSE, error |-> NoError,
                   value |-> Some(Value("TextIOWrapper", field.body.content))]
    ELSE [raised |-> FALSE, error |-> NoError,
          value |-> Some(Value("str", field.body.content))]

\* lines 834-849: the conversion to the type the processor declares
convert(declared, streaming, structured, v) ==
    IF IsNone(v) THEN v
    ELSE IF declared = streaming /\ Get(v).type = "str"
    THEN Some(Value("StringIO", Get(v).content))
    ELSE IF declared = structured /\ Get(v).type = "TextIOWrapper"
    THEN Some(Value(structured, Get(v).content))
    ELSE v

\* line 865-868: the charset of the Content-Type header, or the default
root_content_type_encoding(req) ==
    IF IsNone(req.charset) THEN DEFAULT_ENCODING ELSE Get(req.charset)

InitWire ==
    /\ signature = BOTH_SIGNATURE
    /\ app_details = None
    /\ pc = "ContentTypeValidated"
    /\ request = NoRequest
    /\ validated = Return(None)
    /\ parsed = NoParsed
    /\ hashes = NoHashes
    /\ handler = ""
    /\ outcome = NoOutcome
    /\ log = NoLog
    /\ response = NoResponse
    /\ overrides = {"process_input", "process_response"}
    /\ args \in {[kind |-> "Processor", prompt_class |-> p, response_class |-> r] :
                    p \in PromptTypes, r \in ResponseTypes}
    /\ exception = NoException
    /\ _tags = EmptyTags
    /\ message = NoMessage
    /\ serialized = NoSerialized
    /\ calls = 0
    /\ inflight = <<>>

\* _parse_and_process from the decoded form to the call of the handler
ParseWire ==
    /\ pc = "ContentTypeValidated"
    /\ \E req \in WireRequests :
         LET found == validate_and_find_parameters_name(signature, req.form)
             encoding == root_content_type_encoding(req)
             prompt == extract_multipart_field(
                           IF INPUT_NAME \in req.form THEN req.prompt ELSE NoField,
                           "RequestInput", PromptParseError, encoding, TRUE)
             resp == extract_multipart_field(
                         IF RESPONSE_NAME \in req.form THEN req.response ELSE NoField,
                         "ResponseOutput", ResponseParseError, encoding, TRUE)
             given == [parameters |-> DefaultParameters, metadata |-> Some(EmptyDict),
                       prompt |-> convert(args.prompt_class, "StreamingPrompt", "RequestInput",
                                          prompt.value),
                       response |-> convert(args.response_class, "StreamingResponse",
                                            "ResponseOutput", resp.value)]
         IN  /\ (INPUT_NAME \in req.form <=> req.prompt.present)
             /\ (RESPONSE_NAME \in req.form <=> req.response.present)
             /\ request' = req
             /\ validated' = found
             /\ IF found.raised \/ prompt.raised \/ resp.raised
                THEN /\ pc' = "ErrorResponse"
                     /\ response' = error_response(IF found.raised THEN found.error
                                                   ELSE IF prompt.raised THEN prompt.error
                                                   ELSE resp.error)
                     /\ UNCHANGED <<parsed, handler, calls>>
                ELSE /\ pc' = "Invoked"
                     /\ parsed' = given
                     /\ handler' = IF input_direction(given.prompt, given.response)
                                   THEN "process_input" ELSE "process_response"
                     /\ calls' = calls + 1
                     /\ response' = response
    /\ UNCHANGED <<signature, app_details, hashes, outcome, log, overrides, args, exception,
                   _tags, message, serialized, inflight>>

NextWire == ParseWire

SpecWire == InitWire /\ [][NextWire]_vars

(***************************************************************************)
(* Two POST execute requests in flight on one Processor.  _parse_and_process *)
(* is a coroutine: request, metadata, parameters, prompt, response,        *)
(* prompt_hash, response_hash and result are locals of the call, and the   *)
(* event loop can switch between the calls at request.form() and at the    *)
(* await of the handler.  inflight[i] is request i as its client sees it   *)
(* (pc, request, outcome of its handler, response) together with the       *)
(* locals of one call (parsed, hashes).                                    *)
(***************************************************************************)
RequestIds == {1, 2}

NoInFlight ==
    [pc |-> "Idle", request |-> NoRequest, parsed |-> NoParsed, hashes |-> NoHashes,
     outcome |-> NoOutcome, response |-> NoResponse]

\* locals that every call of the coroutine shares, as attributes of the
\* Processor would be
frame_shared(i) == 1
\* the locals that the call for request i reads and writes: its own
frame(i) == i

\* the requests in flight: a header that is refused, and forms of either
\* direction with metadata, parameters and a content of 1
ConcurrentRequests ==
    {[NoRequest EXCEPT !.header = "text/plain"]}
    \cup {[header |-> "multipart/form-data", form |-> form, parameters |-> pb,
           metadata |-> [kind |-> "object", value |-> m],
           prompt |-> [kind |-> "valid", content |-> 1],
           response |-> IF RESPONSE_NAME \in form
                        THEN [kind |-> "valid", content |-> 1] ELSE Absent] :
             form \in {{METADATA_NAME, INPUT_NAME, INPUT_PARAMETERS_NAME},
                       {METADATA_NAME, INPUT_NAME, RESPONSE_NAME, RESPONSE_PARAMETERS_NAME}},
             pb \in {[annotate |-> TRUE, modify |-> TRUE, reject |-> FALSE, wellformed |-> TRUE],
                     [annotate |-> FALSE, modify |-> FALSE, reject |-> TRUE, wellformed |-> TRUE]},
             m \in InboundMetadata}

\* what the handlers of the requests in flight do
ConcurrentOutcomes ==
    {Result(Some(MaxContent), None, None, None, EmptyTags),
     Result(None, Some(MaxContent), None, None, EmptyTags),
     Reject("AIGW_POLICY_VIOLATION", EmptyDict, EmptyTags, None),
     NotAResult("raise TypeError", NoError)}

\* _parse_and_process lines 870-898: the parts, the direction and the
\* before-change hash, up to the call of the handler
parse_to_handler(sig, req) ==
    LET fields == parse_multipart_fields(sig, req)
        prompt == fields.value.prompt
        resp == fields.value.response
        fail(err) == [raised |-> TRUE, error |-> err, parsed |-> NoParsed, hashes |-> NoHashes]
    IN  IF fields.raised THEN fail(fields.error)
        ELSE IF IsNone(fields.value.metadata)
        THEN fail(MissingMultipartFieldError(METADATA_NAME))
        ELSE IF ~input_direction(prompt, resp) /\ IsNone(resp)
        THEN fail(ProcessExecutionError(GENERIC_EXECUTION_DETAIL))
        ELSE [raised |-> FALSE, error |-> NoError, parsed |-> fields.value,
              hashes |-> IF input_direction(prompt, resp)
                         THEN [prompt_hash |-> Some(RequestInput_hash(Get(prompt))),
                               response_hash |-> None]
                         ELSE [prompt_hash |-> None,
                               response_hash |-> Some(ResponseOutput_hash(Get(resp)))]]

\* handle_request for one request processed alone, its handler doing o
handle_request_alone(sig, details, req, o) ==
    LET header == parse_and_validate_content_type_header(req.header)
        invoked == parse_to_handler(sig, req)
        done == process_outcome(o, invoked.parsed, invoked.hashes, details)
    IN  IF header.raised THEN error_response(header.error)
        ELSE IF invoked.raised THEN error_response(invoked.error)
        ELSE IF done.raised THEN error_response(done.error)
        ELSE done.value

InitConcurrent ==
    /\ signature = BOTH_SIGNATURE
    /\ app_details \in AppDetails
    /\ pc = "Idle"
    /\ request = NoRequest
    /\ validated = Return(None)
    /\ parsed = NoParsed
    /\ hashes = NoHashes
    /\ handler = ""
    /\ outcome = NoOutcome
    /\ log = NoLog
    /\ response = NoResponse
    /\ overrides = {"process_input", "process_response"}
    /\ args = NoArgs
    /\ exception = NoException
    /\ _tags = EmptyTags
    /\ message = NoMessage
    /\ serialized = NoSerialized
    /\ calls = 0
    /\ inflight = [i \in RequestIds |-> NoInFlight]

\* a request arrives: the Content-Type header check, up to request.form()
ConcurrentContentTypeHeader ==
    /\ \E i \in RequestIds, req \in ConcurrentRequests :
         LET checked == parse_and_validate_content_type_header(req.header)
         IN  /\ inflight[i].pc = "Idle"
             /\ inflight' =
                    IF checked.raised
                    THEN [inflight EXCEPT ![i].pc = "ErrorResponse", ![i].request = req,
                                          ![i].response = error_response(checked.error)]
                    ELSE [inflight EXCEPT ![i].pc = "ContentTypeValidated",
                                          ![i].request = req]
    /\ UNCHANGED <<signature, app_details, pc, request, validated, parsed, hashes, handler,
                   outcome, log, response, overrides, args, exception, _tags, message,
                   serialized, calls>>

\* the form is decoded: the parts into the locals, then the call of the
\* handler, where the coroutine is suspended
ConcurrentParseAndInvoke ==
    /\ \E i \in RequestIds :
         LET invoked == parse_to_handler(signature, inflight[i].request)
         IN  /\ inflight[i].pc = "ContentTypeValidated"
             /\ inflight' =
                    IF invoked.raised
                    THEN [inflight EXCEPT ![i].pc = "ErrorResponse",
                                          ![i].response = error_response(invoked.error)]
                    ELSE [inflight EXCEPT ![i].pc = "Invoked",
                                          ![frame(i)].parsed = invoked.parsed,
                                          ![frame(i)].hashes = invoked.hashes]
    /\ UNCHANGED <<signature, app_details, pc, request, validated, parsed, hashes, handler,
                   outcome, log, response, overrides, args, exception, _tags, message,
                   serialized, calls>>

\* the handler of a request completes and the coroutine goes on from its
\* locals: normalisation, policy gate and serialisation
ConcurrentHandlerCompletes ==
    /\ \E i \in RequestIds, o \in ConcurrentOutcomes :
         LET done == process_outcome(o, inflight[frame(i)].parsed,
                                     inflight[frame(i)].hashes, app_details)
         IN  /\ inflight[i].pc = "Invoked"
             /\ inflight' =
                    IF done.raised
                    THEN [inflight EXCEPT ![i].pc = "ErrorResponse", ![i].outcome = o,
                                          ![i].response = error_response(done.error)]
                    ELSE [inflight EXCEPT ![i].pc = "Serialized", ![i].outcome = o,
                                          ![i].response = done.value]
    /\ UNCHANGED <<signature, app_details, pc, request, validated, parsed, hashes, handler,
                   outcome, log, response, overrides, args, exception, _tags, message,
                   serialized, calls>>

NextConcurrent ==
    ConcurrentContentTypeHeader \/ ConcurrentParseAndInvoke \/ ConcurrentHandlerCompletes

SpecConcurrent == InitConcurrent /\ [][NextConcurrent]_vars

(***************************************************************************)
(* result.py RejectCode and the construction and serialisation of a        *)
(* Reject.                                                                 *)
(***************************************************************************)
REJECT_PREFIX == "AIGW_"

\* the members of RejectCode
RejectCodeNames ==
    {"AUTHENTICATION", "AUTHORIZATION", "POLICY_VIOLATION", "RATE_LIMIT",
     "RESOURCE_AVAILABILITY", "TIMEOUT", "VALIDATION"}

\* class RejectCode(str, Enum): the value of each member
RejectCode(name) ==
    IF name \in {"TIMEOUT", "VALIDATION"}
    THEN "f" \o REJECT_PREFIX \o name
    ELSE REJECT_PREFIX \o name

\* the values of the enum
RejectCodeValues == {RejectCode(name) : name \in RejectCodeNames}

\* the code argument of Reject(...): a member of the enum or a str
CodeArgs ==
    {[kind |-> "member", value |-> name] : name \in RejectCodeNames}
    \cup {[kind |-> "str", value |-> s] :
             s \in {REJECT_PREFIX \o name : name \in RejectCodeNames}
                   \cup {"fAIGW_TIMEOUT", "fAIGW_VALIDATION", "OTHER", ""}}

\* pydantic validation of the field code: RejectCode, a member as it is and
\* a str by its value
validate_code(code) ==
    IF code.kind = "member" THEN [raised |-> FALSE, value |-> RejectCode(code.value)]
    ELSE IF code.value \in RejectCodeValues THEN [raised |-> FALSE, value |-> code.value]
    ELSE [raised |-> TRUE, value |-> ""]

INVALID_CODE == "Input should be a member of RejectCode"

InitReject ==
    /\ signature = BOTH_SIGNATURE
    /\ app_details = None
    /\ pc = "NewReject"
    /\ request = NoRequest
    /\ validated = Return(None)
    /\ parsed = NoParsed
    /\ hashes = NoHashes
    /\ handler = ""
    /\ outcome = NoOutcome
    /\ log = NoLog
    /\ response = NoResponse
    /\ overrides = {"process_input", "process_response"}
    /\ args \in {[kind |-> "Reject", code |-> c, metadata |-> md, tags |-> tags,
                  processor_result |-> pr] :
                    c \in CodeArgs, md \in HandlerMetadata, tags \in TagsValues,
                    pr \in ProcessorResults}
    /\ exception = NoException
    /\ _tags = EmptyTags
    /\ message = NoMessage
    /\ serialized = NoSerialized
    /\ calls = 0
    /\ inflight = <<>>

\* Reject(code=..., detail=..., metadata=..., tags=..., processor_result=...)
ConstructReject ==
    /\ pc = "NewReject"
    /\ LET code == validate_code(args.code)
       IN  IF code.raised
           THEN /\ pc' = "ValidationError"
                /\ exception' = Exception("ValidationError", INVALID_CODE)
                /\ outcome' = outcome
           ELSE /\ pc' = "RejectConstructed"
                /\ outcome' = Reject(code.value, args.metadata, args.tags,
                                     args.processor_result)
                /\ exception' = exception
    /\ UNCHANGED <<signature, app_details, request, validated, parsed, hashes, handler, log,
                   response, overrides, args, _tags, message, serialized, calls, inflight>>

\* Reject.to_response
SerializeReject ==
    /\ pc = "RejectConstructed"
    /\ LET resp == Reject_to_response(outcome)
       IN  IF resp.raised
           THEN /\ pc' = "ErrorResponse"
                /\ response' = error_response(resp.error)
           ELSE /\ pc' = "Serialized"
                /\ response' = resp.value
    /\ UNCHANGED <<signature, app_details, request, validated, parsed, hashes, handler,
                   outcome, log, overrides, args, exception, _tags, message, serialized,
                   calls, inflight>>

NextReject == ConstructReject \/ SerializeReject

SpecReject == InitReject /\ [][NextReject]_vars

(***************************************************************************)
(* Properties.                                                             *)
(***************************************************************************)
MULTIPART == "multipart/form-data"

\* the form of the request has been decoded and validated
FormDecoded == request.header = MULTIPART /\ pc \in {"Invoked", "Serialized", "ErrorResponse"}

RequiredOf(sig) == IF IsNone(sig.required) THEN {} ELSE Get(sig.required)

OptionalOf(sig) == IF IsNone(sig.optional) THEN {} ELSE Get(sig.optional)

\* the request is a response-direction request: response.choices is present
ResponseDirection == RESPONSE_NAME \in request.form

\* the field name of the direction of the request
DirectionField == IF ResponseDirection THEN RESPONSE_NAME ELSE INPUT_NAME

\* the parameters field of the direction of the request and of the other one
DirectionParameters ==
    IF ResponseDirection THEN RESPONSE_PARAMETERS_NAME ELSE INPUT_PARAMETERS_NAME

OppositeParameters ==
    IF ResponseDirection THEN INPUT_PARAMETERS_NAME ELSE RESPONSE_PARAMETERS_NAME

\* every body the transformation reads is one it accepts
BodiesAccepted ==
    /\ request.metadata.kind = "object"
    /\ request.prompt.kind # "malformed"
    /\ request.response.kind # "malformed"
    /\ DirectionParameters \in request.form =>
           request.parameters.wellformed /\ ~(request.parameters.modify /\ request.parameters.reject)

\* the conditions under which the validator accepts a form
FormAccepted ==
    /\ METADATA_NAME \in request.form
    /\ INPUT_NAME \in request.form \/ RESPONSE_NAME \in request.form
    /\ DirectionField \in RequiredOf(signature) \cup OptionalOf(signature)
    /\ RequiredOf(signature) \subseteq request.form
    /\ OppositeParameters \notin request.form

\* C1: _validate_and_find_parameters_name returns without error exactly when
\* metadata is present, input.messages or response.choices is present, the
\* direction of the request is supported by the signature, every field of
\* signature.required is present and the parameters field of the opposite
\* direction is absent; it raises a ProcessorError with status 400 otherwise,
\* and unknown field names do not change the outcome.
C1_ValidatorAcceptsExactly ==
    FormDecoded =>
        /\ ~validated.raised <=> FormAccepted
        /\ validated.raised => validated.error.status_code = 400
        /\ validated =
               validate_and_find_parameters_name(signature, request.form \ UnknownNames)

C1_Witness ==
    /\ FormDecoded
    /\ ~validated.raised
    /\ signature = BOTH_RESPONSE_PROMPT_SIGNATURE
    /\ {INPUT_NAME, RESPONSE_NAME} \subseteq request.form
    /\ request.form \cap UnknownNames # {}

\* C2: a request that carries metadata but neither input.messages nor
\* response.choices is answered, for every signature and whatever else it
\* carries, with status 400 and the JSON detail of the missing-both error,
\* and no handler is invoked.
C2_MissingBothDetail ==
    (/\ FormDecoded
     /\ METADATA_NAME \in request.form
     /\ INPUT_NAME \notin request.form
     /\ RESPONSE_NAME \notin request.form)
    => /\ pc = "ErrorResponse"
       /\ response.status_code = 400
       /\ response.media_type = "application/json"
       /\ response.detail =
            "input.messages (prompt) and response.choices (response) fields are missing - at least one is required"
       /\ handler = ""
       /\ outcome = NoOutcome

C2_Witness ==
    /\ FormDecoded
    /\ request.form = {METADATA_NAME, INPUT_PARAMETERS_NAME}
    /\ signature = RESPONSE_ONLY_SIGNATURE
    /\ response.status_code = 400

\* C3: for every request that passes validation the handler invoked is
\* process_response exactly when response.choices is in the form and
\* process_input exactly when it is not; a form with both input.messages and
\* response.choices is a response-direction request, accepted with
\* RESPONSE_ONLY_SIGNATURE and refused with INPUT_ONLY_SIGNATURE.
C3_DirectionByResponseField ==
    FormDecoded =>
        /\ handler # "" => ~validated.raised
        /\ (~validated.raised /\ BodiesAccepted) => handler \in {"process_input", "process_response"}
        /\ handler # "" => (handler = "process_response" <=> RESPONSE_NAME \in request.form)
        /\ handler # "" => (handler = "process_input" <=> RESPONSE_NAME \notin request.form)
        /\ ({INPUT_NAME, RESPONSE_NAME} \subseteq request.form /\ signature = INPUT_ONLY_SIGNATURE)
               => validated.raised /\ handler = ""
        /\ (/\ {INPUT_NAME, RESPONSE_NAME, METADATA_NAME} \subseteq request.form
            /\ INPUT_PARAMETERS_NAME \notin request.form
            /\ signature = RESPONSE_ONLY_SIGNATURE)
               => /\ ~validated.raised
                  /\ BodiesAccepted => handler = "process_response"

C3_Witness ==
    /\ pc = "Serialized"
    /\ {INPUT_NAME, RESPONSE_NAME} \subseteq request.form
    /\ signature = RESPONSE_ONLY_SIGNATURE
    /\ handler = "process_response"

\* the parameters the parameters part of a request states
StatedParameters ==
    [annotate |-> request.parameters.annotate, modify |-> request.parameters.modify,
     reject |-> request.parameters.reject]

RESPONSE_PARAMETERS_DETAIL ==
    "response parameters cannot be present with only a input.messages field"

\* C4 as stated: an input-direction request that carries response.parameters
\* is rejected with status 400 and the response-parameters detail (here
\* already restricted to requests that carry metadata, on a processor with
\* one of the predefined signatures).
C4_AsStated ==
    (/\ FormDecoded
     /\ signature \in ALL_PREDEFINED_SIGNATURES
     /\ METADATA_NAME \in request.form
     /\ INPUT_NAME \in request.form
     /\ RESPONSE_NAME \notin request.form
     /\ RESPONSE_PARAMETERS_NAME \in request.form)
    => /\ response.status_code = 400
       /\ response.detail = RESPONSE_PARAMETERS_DETAIL

\* C4 amended: the parameters handed to the handler are those of the
\* parameters field of the direction of the request, or the defaults when
\* that field is absent; an input-direction request that carries
\* response.parameters is rejected with status 400, with the
\* response-parameters detail when metadata is present, the signature
\* supports input and every field of signature.required is present (an
\* earlier check decides the detail otherwise); a response-direction request
\* that carries input.parameters is rejected with status 400.
C4_ParametersMatchDirection ==
    FormDecoded =>
        /\ handler # "" =>
              /\ OppositeParameters \notin request.form
              /\ parsed.parameters = IF DirectionParameters \in request.form
                                     THEN StatedParameters ELSE DefaultParameters
        /\ (/\ INPUT_NAME \in request.form
            /\ RESPONSE_NAME \notin request.form
            /\ RESPONSE_PARAMETERS_NAME \in request.form)
               => /\ pc = "ErrorResponse"
                  /\ response.status_code = 400
                  /\ handler = ""
                  /\ (/\ METADATA_NAME \in request.form
                      /\ INPUT_NAME \in RequiredOf(signature) \cup OptionalOf(signature)
                      /\ RequiredOf(signature) \subseteq request.form)
                         => response.detail = RESPONSE_PARAMETERS_DETAIL
        /\ (RESPONSE_NAME \in request.form /\ INPUT_PARAMETERS_NAME \in request.form)
               => /\ pc = "ErrorResponse"
                  /\ response.status_code = 400
                  /\ handler = ""

C4_Witness ==
    /\ pc = "ErrorResponse"
    /\ request.form =
          {METADATA_NAME, INPUT_NAME, INPUT_PARAMETERS_NAME, RESPONSE_PARAMETERS_NAME}
    /\ signature = BOTH_SIGNATURE
    /\ response.detail = RESPONSE_PARAMETERS_DETAIL

C4_WitnessHandled ==
    /\ pc = "Invoked"
    /\ RESPONSE_PARAMETERS_NAME \in request.form
    /\ parsed.parameters.modify

\* the parts of the response
HasPart(name) == \E i \in 1..Len(response.parts) : response.parts[i].name = name

PartNames == [i \in 1..Len(response.parts) |-> response.parts[i].name]

\* the JSON object of the metadata part of the response
ResponseMetadata ==
    IF HasPart(METADATA_NAME)
    THEN (CHOOSE f \in {response.parts[i] : i \in 1..Len(response.parts)} :
              f.name = METADATA_NAME).content
    ELSE EmptyDict

\* the request is answered
Answered == pc \in {"Serialized", "ErrorResponse"}

\* the parameters in effect for the request: those of the parameters part
\* of its direction, the defaults without one
EffectiveParameters ==
    IF DirectionParameters \in request.form THEN StatedParameters ELSE DefaultParameters

\* the handler returned a Result as the constructor of Result accepts it
ConstructedResult ==
    /\ outcome.kind = "Result"
    /\ IsNone(outcome.modified_prompt) \/ IsNone(outcome.modified_response)

\* C5 as stated: for input-direction and response-direction requests alike,
\* a modified_prompt with the content hash of the prompt received is not
\* sent back as an input.messages part, and a modified_response with the
\* content hash of the response received is not sent back as a
\* response.choices part, even with parameters.modify true.
C5_AsStated ==
    (/\ pc = "Serialized"
     /\ signature \in ALL_PREDEFINED_SIGNATURES
     /\ ConstructedResult)
    => /\ (/\ ~IsNone(outcome.modified_prompt)
           /\ ~IsNone(parsed.prompt)
           /\ RequestInput_hash(Get(outcome.modified_prompt))
                  = RequestInput_hash(Get(parsed.prompt)))
              => ~HasPart(INPUT_NAME)
       /\ (/\ ~IsNone(outcome.modified_response)
           /\ ~IsNone(parsed.response)
           /\ ResponseOutput_hash(Get(outcome.modified_response))
                  = ResponseOutput_hash(Get(parsed.response)))
              => ~HasPart(RESPONSE_NAME)

\* C6: when the parameters in effect have modify false (the default without
\* a parameters part included), the response to a request whose handler
\* returned a Result has neither an input.messages nor a response.choices
\* part, and the request succeeds.
C6_ModifyGate ==
    (/\ Answered
     /\ outcome.kind = "Result"
     /\ ~EffectiveParameters.modify)
    => /\ pc = "Serialized"
       /\ response.status_code \in {HTTP_200_OK, HTTP_204_NO_CONTENT}
       /\ ~HasPart(INPUT_NAME)
       /\ ~HasPart(RESPONSE_NAME)

C6_Witness ==
    /\ pc = "Serialized"
    /\ outcome.kind = "Result"
    /\ INPUT_PARAMETERS_NAME \notin request.form
    /\ handler = "process_input"
    /\ ~IsNone(outcome.modified_prompt)
    /\ outcome.modified_prompt # parsed.prompt
    /\ log.modify = 1
    /\ response.status_code = HTTP_200_OK

\* C7 as stated: when the parameters in effect have annotate false, the
\* metadata part of the response carries no tags of the outcome, for a
\* Result and for a Reject.
C7_AsStated ==
    (/\ pc = "Serialized"
     /\ outcome.kind \in {"Result", "Reject"}
     /\ ~EffectiveParameters.annotate)
    => "tags" \notin DOMAIN ResponseMetadata

\* C8 as stated: with parameters.modify false, a Result whose modified
\* prompt differs from the prompt of the request has it dropped with exactly
\* one modify warning, and a Result whose modified prompt is the prompt of
\* the request logs no modify warning.
C8_AsStated ==
    (/\ pc = "Serialized"
     /\ signature \in ALL_PREDEFINED_SIGNATURES
     /\ outcome.kind = "Result"
     /\ ~EffectiveParameters.modify
     /\ ~IsNone(outcome.modified_prompt)
     /\ IsNone(outcome.modified_response)
     /\ ~IsNone(parsed.prompt))
    => IF Get(outcome.modified_prompt) # Get(parsed.prompt)
       THEN ~HasPart(INPUT_NAME) /\ log.modify = 1
       ELSE log.modify = 0

\* C9: the response has a reject part exactly when the handler returned a
\* Reject and the parameters in effect have reject true, and it is then a
\* status 200 response with the parts reject, metadata in that order; a
\* Reject with reject false is answered with status 200, one warning and no
\* reject part.
C9_RejectGate ==
    /\ HasPart(REJECT_NAME) <=>
           (pc = "Serialized" /\ outcome.kind = "Reject" /\ EffectiveParameters.reject)
    /\ HasPart(REJECT_NAME) =>
           /\ response.status_code = HTTP_200_OK
           /\ PartNames = <<REJECT_NAME, METADATA_NAME>>
    /\ (Answered /\ outcome.kind = "Reject" /\ ~EffectiveParameters.reject)
           => /\ pc = "Serialized"
              /\ response.status_code = HTTP_200_OK
              /\ log.reject = 1
              /\ ~HasPart(REJECT_NAME)

C9_Witness ==
    /\ pc = "Serialized"
    /\ outcome.kind = "Reject"
    /\ EffectiveParameters.reject
    /\ PartNames = <<REJECT_NAME, METADATA_NAME>>

C9_WitnessDowngraded ==
    /\ pc = "Serialized"
    /\ outcome.kind = "Reject"
    /\ ~EffectiveParameters.reject
    /\ log.reject = 1
    /\ PartNames = <<METADATA_NAME>>

\* C10 as stated: a Result whose is_empty is true when the handler returns
\* it is answered with status 204 and no parts.
C10_AsStated ==
    (/\ Answered
     /\ outcome.kind = "Result"
     /\ Result_is_empty(outcome))
    => /\ response.status_code = HTTP_204_NO_CONTENT
       /\ response.parts = <<>>

\* the metadata object of the request as the handler received it
InboundOfRequest == Get(parsed.metadata)

\* C11: every status 200 multipart response (of a Result, of a Reject, of a
\* Reject downgraded for reject false) has a metadata part whose
\* processor_id and processor_version are those of the processor and whose
\* request_id and step_id are those of the metadata of the request whenever
\* it has these keys, whatever the handler put under these keys.
C11_MetadataStamped ==
    (pc = "Serialized" /\ response.status_code = HTTP_200_OK)
    => /\ response.media_type = MULTIPART
       /\ HasPart(METADATA_NAME)
       /\ {"processor_id", "processor_version"} \subseteq DOMAIN ResponseMetadata
       /\ ResponseMetadata["processor_id"] = PROCESSOR_ID
       /\ ResponseMetadata["processor_version"] = PROCESSOR_VERSION
       /\ \A k \in InboundKeys :
              k \in DOMAIN InboundOfRequest =>
                  /\ k \in DOMAIN ResponseMetadata
                  /\ ResponseMetadata[k] = InboundOfRequest[k]

C11_Witness ==
    /\ pc = "Serialized"
    /\ response.status_code = HTTP_200_OK
    /\ outcome.kind = "Reject"
    /\ ~EffectiveParameters.reject
    /\ "request_id" \in DOMAIN Get(outcome.metadata)
    /\ "request_id" \in DOMAIN InboundOfRequest
    /\ Get(outcome.metadata)["request_id"] # InboundOfRequest["request_id"]
    /\ ResponseMetadata["request_id"] = "req-1"
    /\ ResponseMetadata["processor_id"] = PROCESSOR_ID

C12_WitnessNone ==
    /\ pc = "Serialized"
    /\ HasPart(METADATA_NAME)
    /\ IsNone(app_details)
    /\ "app_details" \in DOMAIN InboundOfRequest
    /\ "app_details" \notin DOMAIN ResponseMetadata

\* the JSON error response with the default detail of ProcessExecutionError
GenericErrorResponse ==
    HttpResponse(HTTP_500_INTERNAL_SERVER_ERROR, "application/json", <<>>,
                 "problem executing processor implementation")

\* C13: when the handler raises an exception that is neither a
\* ProcessExecutionError nor a ResponseObjectError (a TypeError, a plain
\* ProcessorError with its own status and detail), the response is status
\* 500, application/json, with the body {"detail": "problem executing
\* processor implementation"} and nothing of the exception raised.
C13_OtherExceptionsGeneric ==
    (Answered /\ outcome.kind \in {"raise TypeError", "raise ProcessorError"})
    => /\ pc = "ErrorResponse"
       /\ response = GenericErrorResponse
       /\ response.detail # outcome.exc.detail

C13_Witness ==
    /\ pc = "ErrorResponse"
    /\ outcome.kind = "raise ProcessorError"
    /\ outcome.exc.status_code = HTTP_400_BAD_REQUEST
    /\ response.status_code = HTTP_500_INTERNAL_SERVER_ERROR

C15_AsStated ==
    (Answered /\ outcome.kind \in {"None", "Object", "ResultLike"})
    => /\ response.status_code = HTTP_500_INTERNAL_SERVER_ERROR
       /\ response.parts = <<>>
       /\ response.detail = IF outcome.kind = "None"
                            THEN "Processor[namespace:name] process() method returned None"
                            ELSE "problem creating response object"

BothGiven == ~IsNone(args.modified_prompt) /\ ~IsNone(args.modified_response)

\* C16: Result(modified_prompt, modified_response) raises a ValueError
\* exactly when both are given, whatever their contents (empty and equal
\* contents included), and constructs the Result otherwise; the response
\* of Result.to_response has at most one of the input.messages and
\* response.choices parts, also for a Result that had both assigned.
C16_ResultConstruction ==
    (args.kind = "Result" /\ pc # "NewResult")
    => /\ pc = "ValueError" <=> BothGiven
       /\ pc = "ValueError" =>
              exception = Exception("ValueError",
                              "modified_prompt and modified_response are mutually exlusive")
       /\ ~BothGiven => /\ pc \in {"ResultConstructed", "Serialized"}
                        /\ outcome.kind = "Result"
       /\ pc = "Serialized" => ~(HasPart(INPUT_NAME) /\ HasPart(RESPONSE_NAME))

C16_Witness ==
    /\ pc = "ValueError"
    /\ args.kind = "Result"
    /\ args.modified_prompt = Some(EmptyContent)
    /\ args.modified_response = Some(EmptyContent)

C16_WitnessSerialized ==
    /\ pc = "Serialized"
    /\ args.kind = "Result"
    /\ ~IsNone(outcome.modified_prompt)
    /\ ~IsNone(outcome.modified_response)
    /\ HasPart(RESPONSE_NAME)
    /\ PartNames = <<RESPONSE_NAME, METADATA_NAME>>

\* the number of fields of a list that have the name
CountName(fields, name) == Cardinality({i \in 1..Len(fields) : fields[i].name = name})

\* C18: for every list of response fields that has a metadata field, in
\* every insertion order, the stream of the MultipartResponse emits every
\* field once and no part of another name (input.messages,
\* response.choices, reject, an unknown name) after a metadata part, so
\* that metadata is the last part.
C18_MetadataLast ==
    (args.kind = "MultipartResponse" /\ pc # "NewFields")
    => /\ pc = "ValueError" <=> CountName(args.fields, METADATA_NAME) = 0
       /\ \A i, j \in 1..Len(response.parts) :
              (i < j /\ response.parts[i].name = METADATA_NAME)
                  => response.parts[j].name = METADATA_NAME
       /\ pc = "Streamed" =>
              /\ Len(response.parts) = Len(args.fields)
              /\ response.parts[Len(response.parts)].name = METADATA_NAME
              /\ \A name \in ResponseFieldNames :
                     CountName(response.parts, name) = CountName(args.fields, name)

C18_Witness ==
    /\ pc = "Streamed"
    /\ Len(args.fields) = 3
    /\ args.fields[1].name = METADATA_NAME
    /\ args.fields[2].name = REJECT_NAME
    /\ args.fields[3].name = UnknownPool[1]
    /\ PartNames = <<UnknownPool[1], REJECT_NAME, METADATA_NAME>>

\* neither argument of Signature is a non-empty set
NeitherNonEmpty == IsNone(Freeze(args.required)) /\ IsNone(Freeze(args.optional))

\* C19 as stated: a Signature whose required and optional are both None or
\* empty is refused with a ValueError, and every constructed Signature has
\* a non-empty required or optional and supports a direction.
C19_AsStated ==
    (args.kind = "Signature" /\ pc # "NewSignature")
    => /\ NeitherNonEmpty => pc = "ValueError"
       /\ pc # "ValueError" =>
              /\ ~IsNone(signature.required) \/ ~IsNone(signature.optional)
              /\ supports_input(signature) \/ supports_response(signature)

\* the class has a handler for the method of a direction
Implemented(method_name) == method_name \in overrides \/ "process" \in overrides

\* the directions the signature supports that have no handler
Unimplemented ==
    {m \in {"process_input", "process_response"} :
        /\ ~Implemented(m)
        /\ IF m = "process_input" THEN supports_input(signature)
           ELSE supports_response(signature)}

\* C20: a Processor is constructed exactly when its class overrides, for
\* every direction its signature supports, the handler of the direction or
\* the deprecated process; the construction raises a TypeError that names a
\* missing handler otherwise; and a form that passes validation is
\* dispatched to a handler the class implements.
C20_HandlersImplemented ==
    (args.kind = "Signature" /\ pc \in {"Constructed", "Invoked", "ErrorResponse", "TypeError"}
        /\ init_subclass(overrides) = NoException)
    => /\ pc # "TypeError" <=> Unimplemented = {}
       /\ pc = "TypeError" =>
              /\ exception.type = "TypeError"
              /\ \/ /\ exception.message = INPUT_NOT_IMPLEMENTED
                    /\ "process_input" \in Unimplemented
                 \/ /\ exception.message = RESPONSE_NOT_IMPLEMENTED
                    /\ "process_response" \in Unimplemented
       /\ ~validated.raised /\ pc \in {"Invoked", "ErrorResponse"} =>
              /\ pc = "Invoked"
              /\ handler \in {"process_input", "process_response"}
              /\ Implemented(handler)
              /\ exception.type # "NotImplementedError"

C20_Witness ==
    /\ pc = "TypeError"
    /\ overrides = {"process_input"}
    /\ signature = BOTH_SIGNATURE
    /\ exception.message = RESPONSE_NOT_IMPLEMENTED

C20_WitnessDispatched ==
    /\ pc = "Invoked"
    /\ args.kind = "Signature"
    /\ overrides = {"process_response"}
    /\ signature = RESPONSE_ONLY_SIGNATURE
    /\ INPUT_NAME \in request.form
    /\ handler = "process_response"

\* the last operation on the Tags object returned without an exception
Returned_(kind) == pc = "Tags" /\ args.kind = kind /\ exception = NoException

\* C21: after Tags(initial_tags) and any sequence of add_tag, remove_tag
\* and remove_key, every stored key and tag is a non-empty lowercase
\* string and every key has a non-empty list; a key whose only tag is
\* removed is no longer stored; Tags is truthy exactly when it has a key;
\* an operation that raises leaves the tags as they were.
C21_TagsWellFormed ==
    pc = "Tags"
    => /\ \A k \in DOMAIN _tags :
              /\ k # "" /\ Lower(k) = k
              /\ Len(_tags[k]) >= 1
              /\ \A i \in 1..Len(_tags[k]) : _tags[k][i] # "" /\ Lower(_tags[k][i]) = _tags[k][i]
       /\ TagsBool(_tags) <=> DOMAIN _tags # {}
       /\ (Returned_("remove_tag") /\ get_tags(args.before, args.key) = LowerAll(args.values))
              => Lower(args.key) \notin DOMAIN _tags
       /\ (args.kind \in {"add_tag", "remove_tag", "remove_key"} /\ exception # NoException)
              => _tags = args.before

C21_Witness ==
    /\ Returned_("remove_tag")
    /\ args.key = "K"
    /\ args.values = <<"X">>
    /\ args.before = [k |-> <<"x">>]
    /\ _tags = EmptyTags
    /\ ~TagsBool(_tags)

C21_WitnessConstructed ==
    /\ pc = "Tags"
    /\ args.kind = "Tags"
    /\ args.initial_tags = Some(<<[key |-> "k", values |-> <<"x">>],
                                   [key |-> "K", values |-> <<"X", "y">>]>>)
    /\ _tags = [k |-> <<"x", "y">>]
    /\ TagsBool(_tags)

\* no list of the Tags has the same tag twice
NoDuplicates(t) ==
    \A k \in DOMAIN t : \A i, j \in 1..Len(t[k]) : i # j => t[k][i] # t[k][j]

\* C22 as stated: after Tags(initial_tags) and any sequence of add_tag,
\* remove_tag and remove_key no key's list has the same lowercase tag
\* twice, and after remove_tag(key, value) the value is not among
\* get_tags(key).
C22_AsStated ==
    pc = "Tags"
    => /\ NoDuplicates(_tags)
       /\ Returned_("remove_tag")
              => Lower(args.values[1]) \notin Range(get_tags(_tags, args.key))

\* the content of the Message when it is serialised
ContentAtDump == IF IsNone(args.assigned) THEN args.data.content.value ELSE Get(args.assigned)

\* C23 as stated: for every parsed JSON object, content that was null or
\* absent serialises as null while the content is the empty string;
\* content that was a string (the empty string included) serialises as
\* the string the Message holds; every extra field other than the tracking
\* key is in the output with its value; the tracking key and the private
\* attribute are not.
C23_AsStated ==
    (pc = "Dumped" /\ args.kind = "Message")
    => /\ (args.data.content.kind \in {"absent", "null"} /\ ContentAtDump = "")
              => serialized.content = JsonNull
       /\ args.data.content.kind = "str" => serialized.content = JsonStr(ContentAtDump)
       /\ ContentAtDump # "" => serialized.content = JsonStr(ContentAtDump)
       /\ \A k \in DOMAIN args.data.extra \ {TRACKING_KEY} :
              k \in DOMAIN serialized.extra /\ serialized.extra[k] = args.data.extra[k]
       /\ TRACKING_KEY \notin DOMAIN serialized.extra
       /\ DOMAIN serialized = {"content", "role", "extra"}

\* the round trip of C23 for the JSON objects that have no field named as
\* the tracking key
C23_WithoutTrackingKey ==
    TRACKING_KEY \notin DOMAIN args.data.extra => C23_AsStated

\* the handler changed the prompt it was given and returned it
MutatedInPlace == pc \in {"Serialized", "ErrorResponse"} /\ args.kind \in {"def", "async def"}

\* the content of a part of the response
PartContent(name) ==
    LET i == CHOOSE i \in 1..Len(response.parts) : response.parts[i].name = name
    IN  response.parts[i].content

\* C24: the before-change hash is the hash of the prompt as it was parsed
\* from the request, taken before the handler ran; when a handler, def or
\* async def, changes the prompt object it was given and returns it as
\* modified_prompt and parameters.modify is true, the response is a 200
\* with an input.messages part that holds the changed content.
C24_InPlaceChangeDetected ==
    MutatedInPlace
    => /\ handler = "process_input" =>
              /\ hashes.prompt_hash = Some(RequestInput_hash(request.prompt.content))
              /\ hashes.prompt_hash # Some(RequestInput_hash(Get(parsed.prompt)))
       /\ parsed.parameters.modify =>
              /\ pc = "Serialized"
              /\ response.status_code = HTTP_200_OK
              /\ HasPart(INPUT_NAME)
              /\ PartContent(INPUT_NAME) = RequestInput_model_dump_json(Get(parsed.prompt))
              /\ Get(parsed.prompt) # request.prompt.content
              /\ log.modify = 0

C24_Witness ==
    /\ MutatedInPlace
    /\ args.kind = "def"
    /\ handler = "process_input"
    /\ parsed.parameters.modify
    /\ request.prompt.content = 1
    /\ PartContent(INPUT_NAME) = RequestInput_model_dump_json(2)

C24_WitnessAsync ==
    /\ MutatedInPlace
    /\ args.kind = "async def"
    /\ handler = "process_input"
    /\ parsed.parameters.modify
    /\ HasPart(INPUT_NAME)
    /\ PartContent(INPUT_NAME) # RequestInput_model_dump_json(request.prompt.content)

\* the stages of a request before the handler, each on its own input, in
\* the order of the code: the field validation and the transformation of
\* the parameters, metadata, prompt and response parts
Stages ==
    LET found == validate_and_find_parameters_name(signature, request.form)
        stage(r) == [raised |-> r.raised, error |-> r.error]
        ok == [raised |-> FALSE, error |-> NoError]
    IN  <<stage(found),
          stage(extract_parameters(found.name, request.parameters)),
          IF METADATA_NAME \in request.form THEN stage(metadata_transform(request.metadata))
          ELSE ok,
          IF INPUT_NAME \in request.form THEN stage(input_transform(request.prompt)) ELSE ok,
          IF RESPONSE_NAME \in request.form THEN stage(response_transform(request.response))
          ELSE ok>>

\* the stages that fail, of a list of stages
Failing(stages) == {i \in 1..Len(stages) : stages[i].raised}

\* the handler has run only after every stage succeeded, and a request
\* that ends before the handler carries the error of its first failing stage
HandlerAfterStages ==
    LET header == parse_and_validate_content_type_header(request.header)
        stages == Stages
        failing == Failing(stages)
        first == CHOOSE i \in failing : \A j \in failing : i <= j
    IN  /\ pc \in {"Idle", "ContentTypeValidated"} => handler = "" /\ outcome = NoOutcome
        /\ handler # "" =>
               /\ pc \in {"Invoked", "Serialized", "ErrorResponse"}
               /\ ~header.raised
               /\ failing = {}
        /\ (pc = "ErrorResponse" /\ handler = "") =>
               /\ outcome = NoOutcome
               /\ IF header.raised
                  THEN /\ response.status_code = HTTP_415_UNSUPPORTED_MEDIA_TYPE
                       /\ response = error_response(header.error)
                  ELSE /\ failing # {}
                       /\ response.status_code = HTTP_400_BAD_REQUEST
                       /\ response = error_response(stages[first].error)

\* C25: in every step of a POST execute request the handler has been
\* invoked only after the Content-Type header check, the field validation
\* and the transformation of the parameters, metadata, prompt and response
\* parts all succeeded; a request one of whose stages fails ends without a
\* handler call, with 415 for the header and 400 with the error of the
\* first failing stage otherwise; and the number of handler calls of the
\* request is never more than one.
C25_HandlerOnceAfterStages ==
    /\ HandlerAfterStages
    /\ calls = IF handler # "" THEN 1 ELSE 0

C25_Witness ==
    /\ pc = "ErrorResponse"
    /\ handler = ""
    /\ request.header = MULTIPART
    /\ ~Stages[1].raised /\ ~Stages[2].raised
    /\ Stages[3].raised /\ Stages[4].raised
    /\ response = error_response(MetadataParseError("metadata must be a JSON object"))

C25_WitnessInvoked ==
    /\ pc = "Serialized"
    /\ handler = "process_response"
    /\ outcome.kind = "Reject"
    /\ INPUT_NAME \in request.form
    /\ RESPONSE_PARAMETERS_NAME \in request.form

\* the types of a text stream
StreamTypes == {"StringIO", "TextIOWrapper"}

\* the value of a content part the handler is given has the type that the
\* processor declares
AsDeclared(declared, streaming, structured, v) ==
    ~IsNone(v) =>
        /\ declared = streaming => Get(v).type \in StreamTypes
        /\ declared = structured => Get(v).type = structured

\* C26: the handler of a processor that declares StreamingPrompt (or
\* StreamingResponse) is given a text stream and never a RequestInput (or
\* ResponseOutput) object, and the handler of a processor that declares the
\* structured model is given the structured object, for an inline part and
\* for a part with a filename.
C26_AsStated ==
    (pc = "Invoked" /\ args.kind = "Processor") =>
        /\ AsDeclared(args.prompt_class, "StreamingPrompt", "RequestInput", parsed.prompt)
        /\ AsDeclared(args.response_class, "StreamingResponse", "ResponseOutput",
                      parsed.response)

\* what the handler is given whatever the processor declares: the
\* structured object of each part
C26_StructuredWhateverDeclared ==
    (pc = "Invoked" /\ args.kind = "Processor") =>
        /\ ~IsNone(parsed.prompt) => Get(parsed.prompt).type = "RequestInput"
        /\ ~IsNone(parsed.response) => Get(parsed.response).type = "ResponseOutput"

\* the encodings that the charsets of a request resolve to: the charset of
\* the Content-Type header, and for each content part its own charset or,
\* without one, that of the header
ResolvedEncodings(req) ==
    {root_content_type_encoding(req)}
    \cup {IF IsNone(f.charset) THEN root_content_type_encoding(req) ELSE Get(f.charset) :
             f \in {g \in {req.prompt, req.response} : g.present}}

\* C27: a POST execute request one of whose charsets resolves to an
\* encoding outside ALLOWED_ENCODINGS is answered with status 400 and the
\* detail "Unsupported text encoding", and its handler is not invoked.
C27_AsStated ==
    (args.kind = "Processor" /\ pc # "ContentTypeValidated"
     /\ ResolvedEncodings(request) \ ALLOWED_ENCODINGS # {}) =>
        /\ pc = "ErrorResponse"
        /\ response = error_response(InvalidEncoding(UNSUPPORTED_ENCODING))
        /\ calls = 0

\* request i has been answered
RequestAnswered(i) == inflight[i].pc \in {"Serialized", "ErrorResponse"}

\* C28: of two requests in flight on one Processor, interleaved in any way
\* at request.form() and at the await of the handler, each one that has
\* been answered has the response that handle_request gives it when it is
\* processed alone, with the Signature and the app_details the Processor
\* was constructed with.
C28_RequestsIndependent ==
    inflight # <<>> =>
        \A i \in RequestIds :
            RequestAnswered(i) =>
                inflight[i].response =
                    handle_request_alone(signature, app_details, inflight[i].request,
                                         inflight[i].outcome)

\* both requests are suspended at their handlers, with different forms
C28_Witness ==
    /\ inflight # <<>>
    /\ inflight[1].pc = "Invoked" /\ inflight[2].pc = "Invoked"
    /\ inflight[1].request.form # inflight[2].request.form
    /\ inflight[1].parsed.parameters # inflight[2].parsed.parameters

\* both requests are answered, one with a modified prompt and the other
\* with a reject
C28_WitnessAnswered ==
    /\ inflight # <<>>
    /\ inflight[1].pc = "Serialized" /\ inflight[2].pc = "Serialized"
    /\ inflight[1].request # inflight[2].request
    /\ inflight[1].outcome.kind = "Result" /\ inflight[2].outcome.kind = "Reject"
    /\ inflight[1].response # inflight[2].response
    /\ inflight[1].response.status_code = HTTP_200_OK

\* C29: the response to an input-direction request has no response.choices
\* part and the response to a response-direction request has no
\* input.messages part, whatever Result the handler returned and whatever
\* the parameters are.
C29_AsStated ==
    (pc = "Serialized" /\ outcome.kind = "Result") =>
        /\ handler = "process_input" => ~HasPart(RESPONSE_NAME)
        /\ handler = "process_response" => ~HasPart(INPUT_NAME)

\* the codes as stated: AIGW_ and the name of the member
StatedCodes == {REJECT_PREFIX \o name : name \in RejectCodeNames}

\* the reject part of the response
RejectPart ==
    (CHOOSE f \in {response.parts[i] : i \in 1..Len(response.parts)} :
         f.name = REJECT_NAME).content

\* C30: the code of every Reject that is constructed, and the code sent in
\* every reject part, is AIGW_ followed by the name of a member of
\* RejectCode; a Reject is constructed with one of these codes only.
C30_AsStated ==
    args.kind = "Reject" =>
        /\ pc \in {"RejectConstructed", "Serialized"} => outcome.code \in StatedCodes
        /\ (pc = "Serialized" /\ HasPart(REJECT_NAME)) => RejectPart.code \in StatedCodes
        /\ (pc = "ValidationError" /\ args.code.kind = "str") =>
               args.code.value \notin StatedCodes

\* what holds of the codes: every code constructed or sent is a value of
\* the enum
C30_CodeIsEnumValue ==
    args.kind = "Reject" =>
        /\ pc \in {"RejectConstructed", "Serialized"} => outcome.code \in RejectCodeValues
        /\ (pc = "Serialized" /\ HasPart(REJECT_NAME)) => RejectPart.code \in RejectCodeValues
        /\ pc = "ValidationError" => args.code.value \notin RejectCodeValues

====
